---- MODULE Spec2Model ----
(***************************************************************************)
(* A model of the retrieval-augmented answering application:               *)
(*   - chunkText          (src/lib/chunking.ts)                            *)
(*   - generateEmbedding  (src/lib/embeddings.ts)                          *)
(*   - the upload handler (src/app/api/upload/route.ts, lines 43-167)      *)
(*   - the rag handler and its answer stream (same file, lines 190-305)    *)
(*   - match_documents    (SQL of the README, src/unnamed/part_000)        *)
(*   - the documents handlers (src/app/api/documents/route.ts)             *)
(*   - the chat page reading the answer (src/app/page.tsx, handleSend)     *)
(* Strings are sequences of one-character strings.  Similarities are in    *)
(* hundredths (cosine similarity times 100).                               *)
(***************************************************************************)
EXTENDS Integers, Sequences, FiniteSets, TLC

VARIABLES
    seg,    \* the segmenter call under test: arguments and result
    emb,    \* the generateEmbedding calls made by the requests
    store,  \* the rows of the documents table, in insertion order
    now,    \* the database clock (created_at DEFAULT NOW())
    up,     \* the upload requests received, each with its handler's position
    rag,    \* the rag request and its handler's position
    out,    \* the answer stream (ReadableStream) of the rag response
    docs,   \* the documents requests (GET, DELETE) received, with their handlers
    served, \* number of requests the server has received
    cl      \* the chat page: the assistant turn and its reading of the answer

vars == <<seg, emb, store, now, up, rag, out, docs, served, cl>>

Min(a, b) == IF a < b THEN a ELSE b

(***************************************************************************)
(* Bounds of the model.                                                    *)
(***************************************************************************)
\* longest text given to the segmenter call under test
MaxLen == 4
\* largest chunkSize (and overlap - 1) given to the segmenter call under test
MaxSize == 3
\* most chunks of one ingestion the model follows through embedding
MaxChunks == 2
\* most events the generation stream delivers before it ends or fails
MaxEvents == 2
\* most requests one run of the document server receives
MaxRequests == 2
\* most rows the documents table holds in a run of the document server
MaxRows == 4
\* most bytes one read of the answer stream returns
MaxRead == 2

(***************************************************************************)
(* Program constants.                                                      *)
(***************************************************************************)
DefaultChunkSize == 500
DefaultOverlap == 50
MAX_RETRIES == 3
InitialDelayMs == 250
MaxContentLength == 50000
MatchThreshold == 70
MatchCount == 3
\* 10 * 1024 * 1024 bytes
MaxFileSize == 10485760

None == "undefined"

(***************************************************************************)
(* chunkText (src/lib/chunking.ts).                                        *)
(***************************************************************************)
\* slice losing the last character of the range
Slice_OneShort(s, start, end) == SubSeq(s, start + 1, Min(end, Len(s)) - 1)

\* String.prototype.slice(start, end) for 0 <= start <= end
Slice(s, start, end) == SubSeq(s, start + 1, Min(end, Len(s)))

\* the loop stopping after the chunk that reaches the end of the text
RECURSIVE ChunkLoop_StopAtEnd(_, _, _, _, _, _)
ChunkLoop_StopAtEnd(text, chunkSize, overlap, position, index, chunks) ==
    IF position < Len(text)
    THEN LET next == Append(chunks,
                            [text |-> Slice(text, position, position + chunkSize),
                             index |-> index])
         IN  IF position + chunkSize >= Len(text) THEN next
             ELSE ChunkLoop_StopAtEnd(text, chunkSize, overlap,
                                      position + (chunkSize - overlap),
                                      index + 1, next)
    ELSE chunks

\* the while loop of chunkText, from the given position and index on
RECURSIVE ChunkLoop(_, _, _, _, _, _)
ChunkLoop(text, chunkSize, overlap, position, index, chunks) ==
    IF position < Len(text)
    THEN ChunkLoop(text, chunkSize, overlap,
                   position + (chunkSize - overlap), index + 1,
                   Append(chunks,
                          [text |-> Slice(text, position, position + chunkSize),
                           index |-> index]))
    ELSE chunks

\* chunkText without the check of a negative overlap
chunkText_NoNegativeCheck(text, chunkSize, overlap) ==
    IF chunkSize <= 0
    THEN [error |-> "chunkSize must be positive", chunks |-> <<>>]
    ELSE IF overlap >= chunkSize
    THEN [error |-> "overlap must be smaller than chunkSize", chunks |-> <<>>]
    ELSE [error |-> None,
          chunks |-> ChunkLoop(text, chunkSize, overlap, 0, 0, <<>>)]

\* the result of chunkText: the error thrown (None when it returns) and the
\* chunks returned
chunkText(text, chunkSize, overlap) ==
    IF chunkSize <= 0
    THEN [error |-> "chunkSize must be positive", chunks |-> <<>>]
    ELSE IF overlap < 0
    THEN [error |-> "overlap cannot be negative", chunks |-> <<>>]
    ELSE IF overlap >= chunkSize
    THEN [error |-> "overlap must be smaller than chunkSize", chunks |-> <<>>]
    ELSE [error |-> None,
          chunks |-> ChunkLoop(text, chunkSize, overlap, 0, 0, <<>>)]

(***************************************************************************)
(* generateEmbedding (src/lib/embeddings.ts).                              *)
(***************************************************************************)
\* vectors the embedding service returns (all of Euclidean norm 10)
ServiceVectors == {<<8, 6, 0, 0>>, <<10, 0, 0, 0>>}

NoEmbeddingError == "No embedding returned from OpenAI"
ConnectionError == "Connection error."

\* what one openai.embeddings.create request can end in: a response with a
\* vector, a response without one, a rejected request
ServiceOutcomes ==
    [kind : {"vector"}, vector : ServiceVectors, error : {None}]
    \cup {[kind |-> "empty", vector |-> <<>>, error |-> None],
          [kind |-> "rejected", vector |-> <<>>, error |-> ConnectionError]}

\* a call of generateEmbedding(text), suspended in its first service request.
\* log: the outcomes of its service requests so far; delays: the delays it
\* has waited; owner: the number of the upload request that made the call,
\* 0 for the call of the rag request
NewEmbedCall(text, owner) ==
    [text |-> text, pc |-> "awaiting", attempt |-> 0, delayMs |-> InitialDelayMs,
     log |-> <<>>, delays |-> <<>>, result |-> <<>>, error |-> None,
     owner |-> owner]

\* the call after its pending service request ended in outcome o, with a
\* retry budget of four attempts
EmbedOnResponse_FourAttempts(call, o) ==
    LET logged == [call EXCEPT !.log = Append(@, o)] IN
    IF o.kind = "vector"
    THEN [logged EXCEPT !.pc = "returned", !.result = o.vector]
    ELSE LET error == IF o.kind = "empty" THEN NoEmbeddingError ELSE o.error
             attempt == call.attempt + 1
         IN  IF attempt >= MAX_RETRIES + 1
             THEN [logged EXCEPT !.attempt = attempt, !.pc = "thrown",
                                 !.error = error]
             ELSE [logged EXCEPT !.attempt = attempt, !.pc = "sleeping"]

\* the call handing a response without a vector to its caller
EmbedOnResponse_EmptyReturned(call, o) ==
    LET logged == [call EXCEPT !.log = Append(@, o)] IN
    IF o.kind \in {"vector", "empty"}
    THEN [logged EXCEPT !.pc = "returned", !.result = o.vector]
    ELSE LET attempt == call.attempt + 1
         IN  IF attempt >= MAX_RETRIES
             THEN [logged EXCEPT !.attempt = attempt, !.pc = "thrown",
                                 !.error = o.error]
             ELSE [logged EXCEPT !.attempt = attempt, !.pc = "sleeping"]

\* the call after its pending service request ended in outcome o: the try
\* body and the catch block up to the setTimeout
EmbedOnResponse(call, o) ==
    LET logged == [call EXCEPT !.log = Append(@, o)] IN
    IF o.kind = "vector"
    THEN [logged EXCEPT !.pc = "returned", !.result = o.vector]
    ELSE LET error == IF o.kind = "empty" THEN NoEmbeddingError ELSE o.error
             attempt == call.attempt + 1
         IN  IF attempt >= MAX_RETRIES
             THEN [logged EXCEPT !.attempt = attempt, !.pc = "thrown",
                                 !.error = error]
             ELSE [logged EXCEPT !.attempt = attempt, !.pc = "sleeping"]

\* the call after its timer fired, with a constant delay
EmbedOnTimer_NoDoubling(call) ==
    LET waited == [call EXCEPT !.delays = Append(@, call.delayMs)] IN
    IF waited.attempt < MAX_RETRIES
    THEN [waited EXCEPT !.pc = "awaiting"]
    ELSE [waited EXCEPT !.pc = "thrown", !.error = "Failed to generate embedding"]

\* the call after its timer fired: the delay has been waited, delayMs
\* doubles, and the loop issues the next service request
EmbedOnTimer(call) ==
    LET waited == [call EXCEPT !.delays = Append(@, call.delayMs),
                               !.delayMs = call.delayMs * 2] IN
    IF waited.attempt < MAX_RETRIES
    THEN [waited EXCEPT !.pc = "awaiting"]
    ELSE [waited EXCEPT !.pc = "thrown", !.error = "Failed to generate embedding"]

\* service requests a call has issued so far
ServiceCalls(call) == Len(call.log) + (IF call.pc = "awaiting" THEN 1 ELSE 0)

(***************************************************************************)
(* JavaScript values of a JSON request body.                               *)
(***************************************************************************)
JsUndefined == [type |-> "undefined", str |-> <<>>]
JsNull == [type |-> "null", str |-> <<>>]
JsNumber == [type |-> "number", str |-> <<>>]    \* a non-zero number
JsString(s) == [type |-> "string", str |-> s]

\* !v is false
Truthy(v) ==
    v.type \in {"number", "File"} \/ (v.type = "string" /\ Len(v.str) > 0)

\* the characters of a string, in order
StrSeq(str) == [i \in 1..Len(str) |-> SubSeq(str, i, i)]

\* String.prototype.includes on messages
Includes(message, word) ==
    \E k \in 1..(Len(message) - Len(word) + 1) :
       SubSeq(message, k, k + Len(word) - 1) = word

\* String.prototype.endsWith
EndsWith(s, t) ==
    Len(s) >= Len(t) /\ SubSeq(s, Len(s) - Len(t) + 1, Len(s)) = t

\* white space String.prototype.trim removes
IsSpace(c) == c \in {" ", "\n", "\t"}

\* String.prototype.trim
RECURSIVE Trim(_)
Trim(s) ==
    IF s = <<>> THEN s
    ELSE IF IsSpace(s[1]) THEN Trim(Tail(s))
    ELSE IF IsSpace(s[Len(s)]) THEN Trim(SubSeq(s, 1, Len(s) - 1))
    ELSE s

\* a text of n characters
Text(n) == [i \in 1..n |-> IF i % 2 = 1 THEN "a" ELSE "b"]

(***************************************************************************)
(* The segmenter call under test.                                          *)
(***************************************************************************)
Chars == {"a", "b"}

RECURSIVE TextsOfLength(_)
TextsOfLength(n) ==
    IF n = 0 THEN {<<>>}
    ELSE {Append(t, c) : t \in TextsOfLength(n - 1), c \in Chars}

SegTexts == UNION {TextsOfLength(n) : n \in 0..MaxLen}

SegIdle == [text |-> <<>>, chunkSize |-> 1, overlap |-> 0,
            called |-> FALSE, error |-> None, chunks |-> <<>>]

Idle == [pc |-> "idle"]
OutIdle == [state |-> "none", writes |-> <<>>, closeCalls |-> 0,
            cancelled |-> FALSE, atCancel |-> [events |-> 0, writes |-> 0]]

InitChunk ==
    /\ \E t \in SegTexts, c \in (-1)..MaxSize, o \in (-1)..(MaxSize + 1) :
          seg = [SegIdle EXCEPT !.text = t, !.chunkSize = c, !.overlap = o]
    /\ emb = <<>>
    /\ store = <<>>
    /\ now = 0
    /\ up = <<>>
    /\ rag = Idle
    /\ out = OutIdle
    /\ docs = <<>>
    /\ served = 0
    /\ cl = Idle

\* chunkText(seg.text, seg.chunkSize, seg.overlap) is called
CallChunkText ==
    /\ ~seg.called
    /\ LET r == chunkText(seg.text, seg.chunkSize, seg.overlap) IN
       seg' = [seg EXCEPT !.called = TRUE, !.error = r.error, !.chunks = r.chunks]
    /\ UNCHANGED <<emb, store, now, up, rag, out>>
    /\ UNCHANGED <<docs, served, cl>>

NextChunk == CallChunkText

SpecChunk == InitChunk /\ [][NextChunk]_vars

(***************************************************************************)
(* The upload handler (src/app/api/upload/route.ts 43-167): the JSON       *)
(* branch (lines 103-129) and the multipart branch that extracts the text  *)
(* of a PDF (lines 53-102) join at line 131.  up lists the upload requests *)
(* the server has received, each with the position of its handler; the     *)
(* handlers of different requests run interleaved.                         *)
(***************************************************************************)
\* lines 109-128: the error of the 400 response, None when the body passes
ValidateUpload_LimitInclusive(body) ==
    IF ~Truthy(body.content) \/ body.content.type # "string"
    THEN "Invalid content. Expecting non-empty string."
    ELSE IF ~Truthy(body.filename) \/ body.filename.type # "string"
    THEN "Invalid filename. Expecting non-empty string."
    ELSE IF Len(body.content.str) >= MaxContentLength
    THEN "File too large. Limit is 50,000 characters."
    ELSE None

ValidateUpload(body) ==
    IF ~Truthy(body.content) \/ body.content.type # "string"
    THEN "Invalid content. Expecting non-empty string."
    ELSE IF ~Truthy(body.filename) \/ body.filename.type # "string"
    THEN "Invalid filename. Expecting non-empty string."
    ELSE IF Len(body.content.str) > MaxContentLength
    THEN "File too large. Limit is 50,000 characters."
    ELSE None

\* line 60: (filenameParam as string) || file.name
FormFilename(form) ==
    IF Truthy(form.filename) THEN form.filename ELSE JsString(form.file.name)

\* lines 55-102: the error of the 400 response to a multipart request, None
\* when the file goes on to the extraction of its text
ValidateForm(form) ==
    IF form.file.type # "File" THEN "No file provided in FormData."
    ELSE LET filename == FormFilename(form) IN
         IF ~Truthy(filename) \/ filename.type # "string"
         THEN "Invalid filename."
         ELSE IF form.file.size > MaxFileSize
         THEN "File too large. Limit is 10MB."
         ELSE IF ~(form.file.mime = "application/pdf"
                   \/ EndsWith(filename.str, StrSeq(".pdf")))
         THEN "Only PDF files are supported via file upload. Use text paste for .txt files."
         ELSE None

EmptyPdfMessage == "PDF appears to be empty or contains no extractable text."

\* lines 27-40: the message of the error extractTextFromPDF throws for an
\* error caught in its body; isError: the value caught is an Error
ExtractionError(isError, message) ==
    IF isError /\ (Includes(message, "password") \/ Includes(message, "encrypted"))
    THEN "This PDF is password-protected and cannot be processed."
    ELSE IF isError /\ (Includes(message, "corrupt") \/ Includes(message, "invalid"))
    THEN "This PDF file appears to be corrupted or invalid."
    ELSE IF isError /\ (Includes(message, "empty")
                        \/ Includes(message, "no extractable text"))
    THEN message
    ELSE "Failed to extract text from PDF: "
         \o (IF isError THEN message ELSE "Unknown error")

\* lines 12-41: extractTextFromPDF for the outcome o of the pdf-extraction
\* library: the text returned, or the message of the error thrown
extractTextFromPDF(o) ==
    IF o.kind = "rejected"
    THEN [error |-> ExtractionError(o.isError, o.message), text |-> <<>>]
    ELSE IF o.kind = "null" \/ ~Truthy(o.text) \/ Trim(o.text.str) = <<>>
    THEN [error |-> ExtractionError(TRUE, EmptyPdfMessage), text |-> <<>>]
    ELSE [error |-> None, text |-> Trim(o.text.str)]

\* lines 131-138: one generateEmbedding call per chunk, in chunk order
FanOut(chunks, owner) ==
    [i \in 1..Len(chunks) |-> NewEmbedCall(chunks[i].text, owner)]

\* the calls of the upload request numbered r, in chunk order
CallsOf(calls, r) == SelectSeq(calls, LAMBDA c : c.owner = r)

\* the place of call i among the calls of its owner
PlaceOf(calls, i) ==
    Cardinality({j \in 1..i : calls[j].owner = calls[i].owner})

\* rows pairing every chunk with the result of the call at the mirrored
\* position
BuildRows_Mirrored(chunks, calls, filename) ==
    [i \in 1..Len(chunks) |->
        [content |-> chunks[i].text,
         embedding |-> calls[Len(chunks) + 1 - i].result,
         metadata |-> [source |-> filename,
                       chunk_index |-> chunks[i].index,
                       total_chunks |-> Len(chunks)]]]

\* lines 140-148: the rows of the insert, from the chunks and the results of
\* their calls, in the order of Promise.all's result
BuildRows(chunks, calls, filename) ==
    [i \in 1..Len(chunks) |->
        [content |-> chunks[i].text,
         embedding |-> calls[i].result,
         metadata |-> [source |-> filename,
                       chunk_index |-> chunks[i].index,
                       total_chunks |-> Len(chunks)]]]

\* the table after the rows are inserted, created_at DEFAULT NOW()
InsertRows(table, rows, clock) ==
    table \o [i \in 1..Len(rows) |->
                 [content |-> rows[i].content, embedding |-> rows[i].embedding,
                  metadata |-> rows[i].metadata, created_at |-> clock]]

\* the body of a request that is not JSON, the form of one that is not
\* multipart
NoBody == [content |-> JsUndefined, filename |-> JsUndefined]
NoForm == [file |-> JsNull, filename |-> JsNull]

\* an upload request as received.  contentType: "application/json" or
\* "multipart/form-data" (line 50); content, filename: the variables of
\* lines 47-48; seq: the number of the request among the requests received
UploadReceived(contentType, body, form, table, seq) ==
    [pc |-> "received", contentType |-> contentType, body |-> body,
     form |-> form, content |-> <<>>, filename |-> <<>>, seq |-> seq,
     chunks |-> <<>>, rows |-> <<>>,
     insertCalls |-> 0, status |-> 0, error |-> None, chunks_created |-> 0,
     storeBefore |-> table]

JsonUpload(body, table, seq) ==
    UploadReceived("application/json", body, NoForm, table, seq)

MultipartUpload(form, table, seq) ==
    UploadReceived("multipart/form-data", NoBody, form, table, seq)

\* the chunks of a content under the default policy (line 131)
DefaultChunks(content) ==
    chunkText(content, DefaultChunkSize, DefaultOverlap).chunks

\* length of the shortest text of k chunks under the default policy
MinLengthOfChunks(k) == (k - 1) * (DefaultChunkSize - DefaultOverlap) + 1

UploadContents ==
    {JsUndefined, JsNumber, JsString(<<>>),
     JsString(Text(MaxContentLength)), JsString(Text(MaxContentLength + 1))}
    \cup {JsString(Text(MinLengthOfChunks(k))) : k \in 1..MaxChunks}

UploadFilenames == {JsUndefined, JsNumber, JsString(<<>>), JsString(<<"f">>)}

\* messages of the errors the pdf-extraction library raises
PdfErrorMessages ==
    {"No password given", "file is encrypted", "corrupt xref table",
     "invalid header", "Invalid PDF structure", "the document is empty",
     "no extractable text", "boom"}

\* what the extraction of a file can end in (lines 17-20): the library
\* resolves with no data, with data whose text is missing, empty, blank or
\* a text; it rejects with an Error or with another value
PdfOutcomes ==
    {[kind |-> "null", text |-> JsUndefined, isError |-> FALSE, message |-> ""]}
    \cup {[kind |-> "data", text |-> t, isError |-> FALSE, message |-> ""] :
             t \in {JsUndefined, JsString(<<>>), JsString(<<" ", "\n">>),
                    JsString(<<" ", "a", "\n">>),
                    JsString(Text(MinLengthOfChunks(MaxChunks))),
                    JsString(Text(MaxContentLength + 1))}}
    \cup {[kind |-> "rejected", text |-> JsUndefined, isError |-> TRUE,
           message |-> m] : m \in PdfErrorMessages}
    \cup {[kind |-> "rejected", text |-> JsUndefined, isError |-> FALSE,
           message |-> ""]}

\* a File of the form data; pdf: what the extraction of its text ends in
FormFile(name, size, mime, pdf) ==
    [type |-> "File", str |-> <<>>, name |-> name, size |-> size,
     mime |-> mime, pdf |-> pdf]

\* a small PDF with the text " a\n"
PlainPdf ==
    FormFile(StrSeq("x.pdf"), 1, "application/pdf",
             [kind |-> "data", text |-> JsString(<<" ", "a", "\n">>),
              isError |-> FALSE, message |-> ""])

\* a File entry under the name "filename"
JsFile == [type |-> "File", str |-> <<>>]

\* the forms of the multipart requests: no file, a text field as file, and
\* files that differ from PlainPdf in their names and type, in their size, or
\* in what their extraction ends in
UploadForms ==
    {[file |-> f, filename |-> JsNull] : f \in {JsNull, JsString(<<"a">>)}}
    \cup {[file |-> [PlainPdf EXCEPT !.name = n, !.mime = m], filename |-> p] :
             n \in {<<>>, <<"f">>, StrSeq("x.pdf")},
             m \in {"application/pdf", "text/plain"},
             p \in {JsNull, JsString(<<>>), JsString(<<"f">>),
                    JsString(StrSeq("g.pdf")), JsFile}}
    \cup {[file |-> [PlainPdf EXCEPT !.size = z], filename |-> JsNull] :
             z \in {MaxFileSize, MaxFileSize + 1}}
    \cup {[file |-> [PlainPdf EXCEPT !.pdf = o], filename |-> JsNull] :
             o \in PdfOutcomes}

PriorRow == [content |-> <<"p">>, embedding |-> <<10, 0, 0, 0>>,
             metadata |-> [source |-> <<"f">>, chunk_index |-> 0,
                           total_chunks |-> 1],
             created_at |-> 0]

InitUpload ==
    /\ seg = SegIdle
    /\ emb = <<>>
    /\ store \in {<<>>, <<PriorRow>>}
    /\ now = 1
    /\ \/ \E c \in UploadContents, f \in UploadFilenames :
             up = <<JsonUpload([content |-> c, filename |-> f], store, 1)>>
       \/ \E form \in UploadForms :
             up = <<MultipartUpload(form, store, 1)>>
    /\ rag = Idle
    /\ out = OutIdle
    /\ docs = <<>>
    /\ served = 1
    /\ cl = Idle

\* the handler of a request after its body has been read: the JSON body is
\* validated (lines 105-129), or the form is checked and the extraction of
\* the file's text is started (lines 54-88)
UploadAfterBody(u) ==
    IF u.contentType = "multipart/form-data"
    THEN LET error == ValidateForm(u.form) IN
         IF error # None
         THEN [u EXCEPT !.pc = "responded", !.status = 400, !.error = error]
         ELSE [u EXCEPT !.pc = "extracting",
                        !.filename = FormFilename(u.form).str]
    ELSE LET error == ValidateUpload(u.body) IN
         IF error # None
         THEN [u EXCEPT !.pc = "responded", !.status = 400, !.error = error]
         ELSE [u EXCEPT !.pc = "validated", !.content = u.body.content.str,
                        !.filename = u.body.filename.str]

\* lines 88-95, 162-165: the handler after extractTextFromPDF settled
UploadAfterExtract(u, r) ==
    IF r.error # None
    THEN [u EXCEPT !.pc = "responded", !.status = 500, !.error = r.error]
    ELSE IF r.text = <<>> \/ Trim(r.text) = <<>>
    THEN [u EXCEPT !.pc = "responded", !.status = 400,
                   !.error = EmptyPdfMessage]
    ELSE [u EXCEPT !.pc = "validated", !.content = r.text]

\* lines 50-129: the body of request r has been read
UploadValidate(r) ==
    /\ r \in 1..Len(up)
    /\ up[r].pc = "received"
    /\ up' = [up EXCEPT ![r] = UploadAfterBody(@)]
    /\ UNCHANGED <<seg, emb, store, now, rag, out>>
    /\ UNCHANGED <<docs, served, cl>>

\* lines 88-95: the extraction of the text of the file of request r settles
UploadExtract(r) ==
    /\ r \in 1..Len(up)
    /\ up[r].pc = "extracting"
    /\ up' = [up EXCEPT ![r] =
                 UploadAfterExtract(@, extractTextFromPDF(@.form.file.pdf))]
    /\ UNCHANGED <<seg, emb, store, now, rag, out>>
    /\ UNCHANGED <<docs, served, cl>>

\* lines 131-135: the content is chunked and every chunk's embedding call is
\* started (followed for texts of at most MaxChunks chunks)
UploadFanOut(r) ==
    /\ r \in 1..Len(up)
    /\ up[r].pc = "validated"
    /\ Len(up[r].content) <= MinLengthOfChunks(MaxChunks + 1) - 1
    /\ LET chunks == chunkText(up[r].content, DefaultChunkSize,
                               DefaultOverlap).chunks IN
       /\ up' = [up EXCEPT ![r].pc = "embedding", ![r].chunks = chunks]
       /\ emb' = emb \o FanOut(chunks, r)
    /\ UNCHANGED <<seg, store, now, rag, out>>
    /\ UNCHANGED <<docs, served, cl>>

\* the handler waiting for every call to settle and inserting the rows all
\* the same
UploadAfterEmbed_AllSettled(u, calls, i) ==
    IF u.pc # "embedding" THEN u
    ELSE IF \A j \in 1..Len(calls) : calls[j].pc \in {"returned", "thrown"}
    THEN [u EXCEPT !.pc = "inserting",
                   !.rows = BuildRows(u.chunks, calls, u.filename),
                   !.insertCalls = @ + 1]
    ELSE u

\* the handler after call i of its embedding calls settled (lines 133-150):
\* the first rejection ends the request with status 500; once every call
\* has returned the rows are built and the insert is issued
UploadAfterEmbed(u, calls, i) ==
    IF u.pc # "embedding" THEN u
    ELSE IF calls[i].pc = "thrown"
    THEN [u EXCEPT !.pc = "responded", !.status = 500, !.error = calls[i].error]
    ELSE IF \A j \in 1..Len(calls) : calls[j].pc = "returned"
    THEN [u EXCEPT !.pc = "inserting",
                   !.rows = BuildRows(u.chunks, calls, u.filename),
                   !.insertCalls = @ + 1]
    ELSE u

\* the service request of call i of an upload request ends in outcome o
UploadEmbedRespond(i, o) ==
    /\ i \in 1..Len(emb)
    /\ emb[i].owner \in 1..Len(up)
    /\ emb[i].pc = "awaiting"
    /\ emb' = [emb EXCEPT ![i] = EmbedOnResponse(@, o)]
    /\ LET r == emb[i].owner IN
       up' = [up EXCEPT ![r] = UploadAfterEmbed(@, CallsOf(emb', r),
                                                PlaceOf(emb, i))]
    /\ UNCHANGED <<seg, store, now, rag, out>>
    /\ UNCHANGED <<docs, served, cl>>

\* the backoff timer of call i fires
EmbedTimer(i) ==
    /\ i \in 1..Len(emb)
    /\ emb[i].pc = "sleeping"
    /\ emb' = [emb EXCEPT ![i] = EmbedOnTimer(@)]
    /\ UNCHANGED <<seg, store, now, up, rag, out, cl>>
    /\ UNCHANGED <<docs, served, cl>>

\* lines 150-166: the insert of request r succeeds (ok) or the store reports
\* an error
UploadInsertResult(r, ok) ==
    /\ r \in 1..Len(up)
    /\ up[r].pc = "inserting"
    /\ IF ok
       THEN /\ store' = InsertRows(store, up[r].rows, now)
            /\ now' = now + 1
            /\ up' = [up EXCEPT ![r].pc = "responded", ![r].status = 200,
                                ![r].chunks_created = Len(up[r].rows)]
       ELSE /\ UNCHANGED <<store, now>>
            /\ up' = [up EXCEPT ![r].pc = "responded", ![r].status = 500,
                                ![r].error = "insert failed"]
    /\ UNCHANGED <<seg, emb, rag, out>>
    /\ UNCHANGED <<docs, served, cl>>

NextUpload ==
    \/ \E r \in 1..MaxRequests : UploadValidate(r)
    \/ \E r \in 1..MaxRequests : UploadExtract(r)
    \/ \E r \in 1..MaxRequests : UploadFanOut(r)
    \/ \E i \in 1..(MaxRequests * MaxChunks), o \in ServiceOutcomes :
          UploadEmbedRespond(i, o)
    \/ \E i \in 1..(MaxRequests * MaxChunks) : EmbedTimer(i)
    \/ \E r \in 1..MaxRequests, ok \in BOOLEAN : UploadInsertResult(r, ok)

SpecUpload == InitUpload /\ [][NextUpload]_vars

(***************************************************************************)
(* match_documents (README SQL, src/unnamed/part_000 114-139).             *)
(***************************************************************************)
Dot(a, b) == a[1] * b[1] + a[2] * b[2] + a[3] * b[3] + a[4] * b[4]

\* 1 - (embedding <=> query_embedding), in hundredths: every vector of the
\* model has Euclidean norm 10, so the cosine similarity is Dot / 100
Similarity(a, b) == Dot(a, b)

\* the orders in which ORDER BY distance LIMIT k can return the rows idx of
\* the table: rows of equal distance come in either order
RECURSIVE RankedPrefixes(_, _, _, _)
RankedPrefixes(table, query, idx, k) ==
    IF k = 0 \/ idx = {} THEN {<<>>}
    ELSE LET best == {i \in idx : \A j \in idx :
                        Similarity(table[i].embedding, query)
                          >= Similarity(table[j].embedding, query)}
         IN UNION {{<<i>> \o rest :
                       rest \in RankedPrefixes(table, query, idx \ {i}, k - 1)} :
                   i \in best}

MatchRow(row, query) ==
    [content |-> row.content, metadata |-> row.metadata,
     similarity |-> Similarity(row.embedding, query)]

\* match_documents with WHERE similarity >= match_threshold
match_documents_Inclusive(table, query_embedding, match_threshold, match_count) ==
    LET qualifying == {i \in 1..Len(table) :
            Similarity(table[i].embedding, query_embedding) >= match_threshold}
    IN {[n \in 1..Len(order) |-> MatchRow(table[order[n]], query_embedding)] :
           order \in RankedPrefixes(table, query_embedding, qualifying, match_count)}

\* the results match_documents can return
match_documents(table, query_embedding, match_threshold, match_count) ==
    LET qualifying == {i \in 1..Len(table) :
            Similarity(table[i].embedding, query_embedding) > match_threshold}
    IN {[n \in 1..Len(order) |-> MatchRow(table[order[n]], query_embedding)] :
           order \in RankedPrefixes(table, query_embedding, qualifying, match_count)}

(***************************************************************************)
(* Text encoding and JSON.stringify.                                       *)
(***************************************************************************)
\* the concatenation of a sequence of sequences (by halves)
RECURSIVE Concat(_)
Concat(seqs) ==
    IF Len(seqs) = 0 THEN <<>>
    ELSE IF Len(seqs) = 1 THEN seqs[1]
    ELSE LET mid == Len(seqs) \div 2 IN
         Concat(SubSeq(seqs, 1, mid)) \o Concat(SubSeq(seqs, mid + 1, Len(seqs)))

\* the UTF-8 bytes of one character; an ASCII character stands for its byte
Utf8Bytes(c) == IF c = "e_acute" THEN <<"0xC3", "0xA9">> ELSE <<c>>

\* TextEncoder.encode
Utf8Encode(str) == Concat([i \in 1..Len(str) |-> Utf8Bytes(str[i])])

DigitChars == <<"0", "1", "2", "3", "4", "5", "6", "7", "8", "9">>

\* the decimal digits of a natural number
RECURSIVE IntStr(_)
IntStr(n) == IF n < 10 THEN <<DigitChars[n + 1]>>
             ELSE IntStr(n \div 10) \o <<DigitChars[(n % 10) + 1]>>

\* JSON text of a similarity given in hundredths, 0..100
SimilarityStr(s) ==
    IF s % 100 = 0 THEN IntStr(s \div 100)
    ELSE IntStr(s \div 100) \o <<".", DigitChars[((s % 100) \div 10) + 1]>>
         \o (IF s % 10 = 0 THEN <<>> ELSE <<DigitChars[(s % 10) + 1]>>)

JsonEscapeChar(c) ==
    IF c = "\"" THEN <<"\\", "\"">>
    ELSE IF c = "\\" THEN <<"\\", "\\">>
    ELSE IF c = "\n" THEN <<"\\", "n">>
    ELSE <<c>>

JsonString(str) ==
    <<"\"">> \o Concat([i \in 1..Len(str) |-> JsonEscapeChar(str[i])]) \o <<"\"">>

RECURSIVE JoinComma(_)
JoinComma(seqs) ==
    IF seqs = <<>> THEN <<>>
    ELSE IF Len(seqs) = 1 THEN seqs[1]
    ELSE seqs[1] \o <<",">> \o JoinComma(Tail(seqs))

KeyContent == <<"c", "o", "n", "t", "e", "n", "t">>
KeyMetadata == <<"m", "e", "t", "a", "d", "a", "t", "a">>
KeySimilarity == <<"s", "i", "m", "i", "l", "a", "r", "i", "t", "y">>
KeySource == <<"s", "o", "u", "r", "c", "e">>
KeyChunkIndex == <<"c", "h", "u", "n", "k", "_", "i", "n", "d", "e", "x">>
KeyTotalChunks == <<"t", "o", "t", "a", "l", "_", "c", "h", "u", "n", "k", "s">>

JsonMetadata(m) ==
    <<"{">> \o JsonString(KeySource) \o <<":">> \o JsonString(m.source)
    \o <<",">> \o JsonString(KeyChunkIndex) \o <<":">> \o IntStr(m.chunk_index)
    \o <<",">> \o JsonString(KeyTotalChunks) \o <<":">> \o IntStr(m.total_chunks)
    \o <<"}">>

JsonSource(p) ==
    <<"{">> \o JsonString(KeyContent) \o <<":">> \o JsonString(p.content)
    \o <<",">> \o JsonString(KeyMetadata) \o <<":">> \o JsonMetadata(p.metadata)
    \o <<",">> \o JsonString(KeySimilarity) \o <<":">> \o SimilarityStr(p.similarity)
    \o <<"}">>

\* JSON.stringify(sourcesPayload)
JSONStringify(payload) ==
    <<"[">> \o JoinComma([i \in 1..Len(payload) |-> JsonSource(payload[i])])
    \o <<"]">>

SOURCE_MARKER == <<"_", "_", "S", "O", "U", "R", "C", "E", "S", "_", "_">>

(***************************************************************************)
(* The controller of the answer stream (ReadableStreamDefaultController).  *)
(***************************************************************************)
OutOpen == [OutIdle EXCEPT !.state = "readable"]

\* controller.enqueue throws a TypeError on a stream that is not readable
\* (errored, closed, or cancelled by its consumer)
EnqueueThrows(o) == o.state # "readable"

\* controller.enqueue(chunk): the chunk is written to a readable stream
ControllerEnqueue(o, chunk) ==
    IF EnqueueThrows(o) THEN o ELSE [o EXCEPT !.writes = Append(@, chunk)]

\* controller.error(e): a readable stream becomes errored
ControllerError(o) ==
    IF o.state = "readable" THEN [o EXCEPT !.state = "errored"] ELSE o

\* controller.close(): a readable stream is closed; on any other stream the
\* call throws a TypeError and changes nothing
ControllerClose(o) ==
    IF o.state = "readable"
    THEN [o EXCEPT !.state = "closed", !.closeCalls = @ + 1]
    ELSE [o EXCEPT !.closeCalls = @ + 1]

(***************************************************************************)
(* The rag handler (src/app/api/upload/route.ts 190-305).                  *)
(***************************************************************************)
\* lines 195-207: the status and error of the early response, status 0 when
\* the request passes
ValidateRag(body, apiKeySet) ==
    IF ~Truthy(body.question) \/ body.question.type # "string"
    THEN [status |-> 400, error |-> "Missing or invalid question"]
    ELSE IF ~apiKeySet
    THEN [status |-> 500, error |-> "ANTHROPIC_API_KEY is not set"]
    ELSE [status |-> 0, error |-> None]

\* the matches left unfiltered
ApplySourceFilter_KeepAll(data, document_source) == data

\* lines 225-231: the matches narrowed to the requested source
ApplySourceFilter(data, document_source) ==
    IF Truthy(document_source)
    THEN SelectSeq(data, LAMBDA doc : document_source.type = "string"
                                      /\ doc.metadata.source = document_source.str)
    ELSE data

\* lines 240-242: the context block of the prompt
RECURSIVE JoinNewline(_)
JoinNewline(seqs) ==
    IF seqs = <<>> THEN <<>>
    ELSE IF Len(seqs) = 1 THEN seqs[1]
    ELSE seqs[1] \o <<"\n">> \o JoinNewline(Tail(seqs))

BuildContext(matches) ==
    JoinNewline([i \in 1..Len(matches) |->
                    matches[i].content \o <<"\n", "-", "-", "-">>])

\* lines 263-267
SourcesPayload(matches) ==
    [i \in 1..Len(matches) |->
        [content |-> matches[i].content, metadata |-> matches[i].metadata,
         similarity |-> matches[i].similarity]]

\* phases: the phases the request has entered: Validating (lines 192-207),
\* EmbeddingQuestion (210), QueryingStore (212-238), BuildingPrompt
\* (240-267), Streaming (271-281), EmittingCitations (283-285), Done (290
\* after the marker write), Failed (an error response or the catch block)
RagReceived(body, apiKeySet) ==
    [pc |-> "received", body |-> body, apiKeySet |-> apiKeySet,
     query |-> <<>>, data |-> <<>>, matches |-> <<>>, context |-> <<>>,
     payload |-> <<>>, status |-> 0, error |-> None,
     rpcCalls |-> 0, genCalls |-> 0, events |-> 0, increments |-> <<>>,
     phases |-> <<"Validating">>]

\* the handler after its question embedding call settled (lines 210-216)
RagAfterEmbed(r, call) ==
    IF call.pc = "thrown"
    THEN [r EXCEPT !.pc = "responded", !.status = 500, !.error = call.error,
                   !.phases = Append(@, "Failed")]
    ELSE IF call.pc = "returned"
    THEN [r EXCEPT !.pc = "querying", !.query = call.result, !.rpcCalls = @ + 1,
                   !.phases = Append(@, "QueryingStore")]
    ELSE r

\* the handler opening the generation stream whatever the matches are
RagAfterQuery_NoEmptyCheck(r, data) ==
    LET matches == ApplySourceFilter(data, r.body.document_source) IN
    [r EXCEPT !.pc = "streaming", !.data = data, !.matches = matches,
              !.context = BuildContext(matches),
              !.payload = SourcesPayload(matches),
              !.status = 200, !.genCalls = @ + 1,
              !.phases = @ \o <<"BuildingPrompt", "Streaming">>]

\* the handler after match_documents returned data (lines 225-299)
RagAfterQuery(r, data) ==
    LET matches == ApplySourceFilter(data, r.body.document_source) IN
    IF Len(matches) = 0
    THEN [r EXCEPT !.pc = "responded", !.data = data, !.matches = matches,
                   !.status = 404,
                   !.error = "No relevant chunks found. Try rephrasing or uploading.",
                   !.phases = Append(@, "Failed")]
    ELSE [r EXCEPT !.pc = "streaming", !.data = data, !.matches = matches,
                   !.context = BuildContext(matches),
                   !.payload = SourcesPayload(matches),
                   !.status = 200, !.genCalls = @ + 1,
                   !.phases = @ \o <<"BuildingPrompt", "Streaming">>]

\* the rows a store of the rag requests is made of
RowPool ==
    << [content |-> <<"p">>, embedding |-> <<8, 6, 0, 0>>,
        metadata |-> [source |-> <<"a">>, chunk_index |-> 0, total_chunks |-> 3],
        created_at |-> 0],
       [content |-> <<"q", "\"">>, embedding |-> <<6, 8, 0, 0>>,
        metadata |-> [source |-> <<"a">>, chunk_index |-> 1, total_chunks |-> 3],
        created_at |-> 0],
       [content |-> <<"r">>, embedding |-> <<9, 3, 3, 1>>,
        metadata |-> [source |-> <<"a">>, chunk_index |-> 2, total_chunks |-> 3],
        created_at |-> 0],
       [content |-> <<"s">>, embedding |-> <<9, 3, 1, 3>>,
        metadata |-> [source |-> <<"b">>, chunk_index |-> 0, total_chunks |-> 3],
        created_at |-> 1],
       [content |-> <<"t">>, embedding |-> <<7, 5, 5, 1>>,
        metadata |-> [source |-> <<"b">>, chunk_index |-> 1, total_chunks |-> 3],
        created_at |-> 1],
       [content |-> <<"u">>, embedding |-> <<5, 5, 5, 5>>,
        metadata |-> [source |-> <<"b">>, chunk_index |-> 2, total_chunks |-> 3],
        created_at |-> 1] >>

\* the rows of RowPool whose index is in S, in the order of the pool
RECURSIVE PoolRows(_, _)
PoolRows(S, i) ==
    IF i > Len(RowPool) THEN <<>>
    ELSE (IF i \in S THEN <<RowPool[i]>> ELSE <<>>) \o PoolRows(S, i + 1)

RagStores == {PoolRows(S, 1) : S \in SUBSET (1..Len(RowPool))}

RagQuestions == {JsUndefined, JsNumber, JsString(<<>>), JsString(<<"w">>)}

RagSources == {JsUndefined, JsString(<<>>), JsString(<<"a">>), JsString(<<"b">>)}

InitRag ==
    /\ seg = SegIdle
    /\ emb = <<>>
    /\ store \in RagStores
    /\ now = 2
    /\ up = <<>>
    /\ \E q \in RagQuestions, d \in RagSources, k \in BOOLEAN :
          rag = RagReceived([question |-> q, document_source |-> d], k)
    /\ out = OutIdle
    /\ docs = <<>>
    /\ served = 0
    /\ cl = Idle

\* lines 192-210: the body is validated and the question embedding started
RagHandle ==
    /\ rag.pc = "received"
    /\ LET v == ValidateRag(rag.body, rag.apiKeySet) IN
       IF v.status # 0
       THEN /\ rag' = [rag EXCEPT !.pc = "responded", !.status = v.status,
                                  !.error = v.error,
                                  !.phases = Append(@, "Failed")]
            /\ UNCHANGED emb
       ELSE /\ rag' = [rag EXCEPT !.pc = "embedding",
                                  !.phases = Append(@, "EmbeddingQuestion")]
            /\ emb' = <<NewEmbedCall(rag.body.question.str, 0)>>
    /\ UNCHANGED <<seg, store, now, up, out>>
    /\ UNCHANGED <<docs, served, cl>>

\* the service request of the question embedding ends in outcome o
RagEmbedRespond(o) ==
    /\ rag.pc = "embedding"
    /\ emb[1].pc = "awaiting"
    /\ emb' = [emb EXCEPT ![1] = EmbedOnResponse(@, o)]
    /\ rag' = RagAfterEmbed(rag, emb'[1])
    /\ UNCHANGED <<seg, store, now, up, out>>
    /\ UNCHANGED <<docs, served, cl>>

\* messages of the errors the store reports
StoreErrorMessages == {"boom", "canceling statement due to statement timeout"}

\* line 220: the error of the response when match_documents fails
MatchFailedMessage(message) == "Supabase match_documents failed: " \o message

\* lines 212-223: the store reports an error for match_documents
RagQueryError(message) ==
    /\ rag.pc = "querying"
    /\ rag' = [rag EXCEPT !.pc = "responded", !.status = 500,
                          !.error = MatchFailedMessage(message),
                          !.phases = Append(@, "Failed")]
    /\ emb' = <<>>
    /\ UNCHANGED <<seg, store, now, up, out>>
    /\ UNCHANGED <<docs, served, cl>>

\* lines 212-299: match_documents returns its matches; the handler answers
\* 404 or opens the generation stream and the answer stream
RagQueryResult ==
    /\ rag.pc = "querying"
    /\ \E data \in match_documents(store, rag.query, MatchThreshold, MatchCount) :
          rag' = RagAfterQuery(rag, data)
    /\ out' = IF rag'.pc = "streaming" THEN OutOpen ELSE out
    /\ emb' = <<>>
    /\ UNCHANGED <<seg, store, now, up>>
    /\ UNCHANGED <<docs, served, cl>>

\* texts of the text deltas: a letter, a two-byte character, a space
GenTexts == {<<"x">>, <<"e_acute">>, <<" ">>}

GenEvents == [type : {"text_delta"}, text : GenTexts]
             \cup {[type |-> "message_delta", text |-> <<>>]}

\* the loop body forwarding only the first text increment
ForwardEvent_FirstOnly(o, event) ==
    IF event.type = "text_delta" /\ o.writes = <<>>
    THEN ControllerEnqueue(o, Utf8Encode(event.text))
    ELSE o

\* lines 275-280: one event of the generation stream
ForwardEvent(o, event) ==
    IF event.type = "text_delta"
    THEN ControllerEnqueue(o, Utf8Encode(event.text))
    ELSE o

\* the enqueue of line 279 throws for this event
ForwardThrows(o, event) == event.type = "text_delta" /\ EnqueueThrows(o)

\* lines 286-290 after an enqueue threw: catch calls error, finally calls
\* close
CatchEnqueue(o) == ControllerClose(ControllerError(o))

\* the end of the generation stream without the newline before the marker
FinishStream_NoNewline(o, payload) ==
    ControllerClose(
        ControllerEnqueue(o, Utf8Encode(SOURCE_MARKER \o JSONStringify(payload))))

\* lines 283-290: the marker and the sources are written, the stream closed
FinishStream(o, payload) ==
    IF EnqueueThrows(o) THEN CatchEnqueue(o)
    ELSE ControllerClose(
             ControllerEnqueue(o, Utf8Encode(<<"\n">> \o SOURCE_MARKER
                                             \o JSONStringify(payload))))

\* the failure of the generation stream, writing the sources all the same
FailStream_WithSources(o, payload) ==
    ControllerClose(ControllerError(
        ControllerEnqueue(o, Utf8Encode(<<"\n">> \o SOURCE_MARKER
                                        \o JSONStringify(payload)))))

\* lines 286-290: the stream is put into the error state; the finally block
\* then calls close
FailStream(o, payload) == ControllerClose(ControllerError(o))

\* lines 274-281, 286-290: the streamer reads an event of the generation
\* stream and forwards its text; when the enqueue throws the loop is left
\* through the catch and finally blocks
StreamEvent(event) ==
    /\ rag.pc = "streaming"
    /\ rag.events < MaxEvents
    /\ out' = IF ForwardThrows(out, event) THEN CatchEnqueue(out)
              ELSE ForwardEvent(out, event)
    /\ rag' = [rag EXCEPT !.events = @ + 1,
                          !.increments = IF event.type = "text_delta"
                                         THEN Append(@, event.text) ELSE @,
                          !.pc = IF ForwardThrows(out, event)
                                 THEN "failed" ELSE @,
                          !.phases = IF ForwardThrows(out, event)
                                     THEN Append(@, "Failed") ELSE @]
    /\ UNCHANGED <<seg, emb, store, now, up>>
    /\ UNCHANGED <<docs, served, cl>>

\* lines 283-290: the generation stream ends, the marker and the sources
\* are written and the stream closed; when the enqueue throws the catch and
\* finally blocks run
StreamEnd ==
    /\ rag.pc = "streaming"
    /\ out' = FinishStream(out, rag.payload)
    /\ rag' = IF EnqueueThrows(out)
              THEN [rag EXCEPT !.pc = "failed",
                               !.phases = @ \o <<"EmittingCitations", "Failed">>]
              ELSE [rag EXCEPT !.pc = "done",
                               !.phases = @ \o <<"EmittingCitations", "Done">>]
    /\ UNCHANGED <<seg, emb, store, now, up>>
    /\ UNCHANGED <<docs, served, cl>>

\* the generation stream raises an error
StreamError ==
    /\ rag.pc = "streaming"
    /\ out' = FailStream(out, rag.payload)
    /\ rag' = [rag EXCEPT !.pc = "failed", !.phases = Append(@, "Failed")]
    /\ UNCHANGED <<seg, emb, store, now, up>>
    /\ UNCHANGED <<docs, served, cl>>

NextRag ==
    \/ RagHandle
    \/ \E o \in ServiceOutcomes : RagEmbedRespond(o)
    \/ \E i \in 1..MaxChunks : EmbedTimer(i)
    \/ \E message \in StoreErrorMessages : RagQueryError(message)
    \/ RagQueryResult
    \/ \E event \in GenEvents : StreamEvent(event)
    \/ StreamEnd
    \/ StreamError

SpecRag == InitRag /\ [][NextRag]_vars

\* the consumer of the answer stream cancels it while the generation is in
\* progress (ReadableStream cancel: the stream is closed and its queue
\* dropped; the underlying source of line 271 has no cancel method)
ConsumerCancel ==
    /\ rag.pc = "streaming"
    /\ out.state = "readable"
    /\ out' = [out EXCEPT !.state = "closed", !.cancelled = TRUE,
                          !.atCancel = [events |-> rag.events,
                                        writes |-> Len(out.writes)]]
    /\ UNCHANGED <<seg, emb, store, now, up, rag, docs, served, cl>>

NextRagCancel == NextRag \/ ConsumerCancel

\* the rag handler with a consumer that may cancel the answer stream
SpecRagCancel == InitRag /\ [][NextRagCancel]_vars

(***************************************************************************)
(* The documents handlers (src/app/api/documents/route.ts, GET and DELETE) *)
(* and the server receiving ingestions, listings and deletions.  A request *)
(* is received at any time, also while others are being served: the        *)
(* handlers are independent and interleave at their awaits.  docs lists    *)
(* the GET and DELETE requests received.                                   *)
(***************************************************************************)
\* all sequences that list the elements of a finite set once each
RECURSIVE Orders(_)
Orders(S) ==
    IF S = {} THEN {<<>>}
    ELSE UNION {{<<x>> \o t : t \in Orders(S \ {x})} : x \in S}

\* line 15: select("metadata, created_at") without ORDER BY: the projected
\* rows of the table in any order
SelectRows(table) ==
    {[i \in 1..Len(table) |->
         [metadata |-> table[p[i]].metadata, created_at |-> table[p[i]].created_at]]
       : p \in Orders(1..Len(table))}

\* names of the properties a plain object inherits from Object.prototype
ObjectPrototypeKeys ==
    {StrSeq(name) : name \in
        {"constructor", "toString", "toLocaleString", "valueOf",
         "hasOwnProperty", "isPrototypeOf", "propertyIsEnumerable",
         "__proto__", "__defineGetter__", "__defineSetter__",
         "__lookupGetter__", "__lookupSetter__"}}

\* summaries[source] (line 27) on the plain object summaries, whose own
\* properties are listed in the order they were created: the position of
\* the own property of that name; -1 when there is none and the name is
\* inherited from Object.prototype (a truthy value that is no summary); 0
\* when the lookup gives undefined
SummaryIndex(summaries, source) ==
    IF \E k \in 1..Len(summaries) : summaries[k].source = source
    THEN CHOOSE k \in 1..Len(summaries) : summaries[k].source = source
    ELSE IF source \in ObjectPrototypeKeys THEN -1
    ELSE 0

\* the digits of the decimal numerals
Digits == {"0", "1", "2", "3", "4", "5", "6", "7", "8", "9"}

\* the value of a digit
DigitRank(c) == CHOOSE d \in 0..9 : ToString(d) = c

\* the numeral a writes a smaller number than the numeral b (numerals
\* without leading zeros)
NumeralLess(a, b) ==
    \/ Len(a) < Len(b)
    \/ /\ Len(a) = Len(b)
       /\ \E k \in 1..Len(a) :
             /\ DigitRank(a[k]) < DigitRank(b[k])
             /\ \A j \in 1..(k - 1) : a[j] = b[j]

\* the numeral of 2^32 - 2, the greatest array index
MaxArrayIndex == StrSeq("4294967294")

\* a property name that is an array index: the canonical numeral of an
\* integer of 0 .. 2^32 - 2
IsArrayIndex(name) ==
    /\ Len(name) >= 1
    /\ \A i \in 1..Len(name) : name[i] \in Digits
    /\ (Len(name) > 1 => name[1] # "0")
    /\ ~NumeralLess(MaxArrayIndex, name)

\* the summaries at the positions at, by ascending index of their sources
RECURSIVE IndexSummaries(_, _)
IndexSummaries(summaries, at) ==
    IF at = {} THEN <<>>
    ELSE LET k == CHOOSE k \in at : \A l \in at \ {k} :
                     NumeralLess(summaries[k].source, summaries[l].source)
         IN  <<summaries[k]>> \o IndexSummaries(summaries, at \ {k})

\* Object.values(summaries) (line 38): the properties named by an array
\* index come first, by ascending index, then the others in the order they
\* were created
ObjectValues(summaries) ==
    IndexSummaries(summaries, {k \in 1..Len(summaries) :
                                  IsArrayIndex(summaries[k].source)})
    \o SelectSeq(summaries, LAMBDA sm : ~IsArrayIndex(sm.source))

\* lines 21-36: the loop over the returned rows from row i on; summaries
\* lists the own properties of the object in the order they were created.
\* A row whose source names an inherited property opens no summary, and
\* its increment (line 35) goes to the inherited value
RECURSIVE GroupRows(_, _, _)
GroupRows(data, i, summaries) ==
    IF i > Len(data) THEN summaries
    ELSE LET source == data[i].metadata.source
             k == SummaryIndex(summaries, source)
             opened == IF k = 0
                       THEN Append(summaries,
                                   [source |-> source, chunk_count |-> 0,
                                    created_at |-> data[i].created_at])
                       ELSE summaries
             at == IF k = 0 THEN Len(opened) ELSE k
         IN  IF source = <<>> \/ k = -1 THEN GroupRows(data, i + 1, summaries)
             ELSE GroupRows(data, i + 1,
                            [opened EXCEPT ![at].chunk_count = @ + 1])

\* the delete removing every row
DeleteRows_All(table, source) == <<>>

\* lines 60-63: delete().eq("metadata->>source", source)
DeleteRows(table, source) ==
    SelectSeq(table, LAMBDA row : row.metadata.source # source)

\* a documents request as received: op is "list" (GET) or "delete" (DELETE)
\* with its JSON body; seq numbers the requests of the run; storeBefore: the
\* table when the request arrived; storeAtCall, storeAfterCall: the table
\* before and after the store carried out the call of the handler
DocsReceived(op, body, table, seq) ==
    [pc |-> "received", op |-> op, body |-> body, seq |-> seq, status |-> 0,
     error |-> None, summaries |-> <<>>, success |-> FALSE,
     storeBefore |-> table, storeAtCall |-> <<>>, storeAfterCall |-> <<>>]

\* filenames of the plain-text ingestions of a run: a letter, an array
\* index and the name of an inherited property
DocsFilenames ==
    {JsString(<<"f">>), JsString(<<"1">>), JsString(StrSeq("constructor"))}

\* sources a deletion names
DocsSources == {JsUndefined, JsString(<<"f">>), JsString(<<"1">>)}

\* outcomes of the embedding service during a run of the document server:
\* the service answers every request with a vector
DocsOutcomes == {o \in ServiceOutcomes : o.vector = <<8, 6, 0, 0>>}

InitDocs ==
    /\ seg = SegIdle
    /\ emb = <<>>
    /\ store \in {<<>>, <<PriorRow>>}
    /\ now = 1
    /\ up = <<>>
    /\ rag = Idle
    /\ out = OutIdle
    /\ docs = <<>>
    /\ served = 0
    /\ cl = Idle

\* the text an upload request brings: the content of its JSON body or the
\* text of its file
TextOf(u) ==
    IF u.contentType = "multipart/form-data"
    THEN extractTextFromPDF(u.form.file.pdf).text
    ELSE u.body.content.str

\* rows the upload requests being served may still insert
RECURSIVE RowsToCome(_, _)
RowsToCome(uploads, r) ==
    IF r > Len(uploads) THEN 0
    ELSE (IF uploads[r].pc = "responded" THEN 0
          ELSE Len(DefaultChunks(TextOf(uploads[r]))))
         + RowsToCome(uploads, r + 1)

\* the upload requests of a run: a text of one chunk under every filename,
\* a text of two chunks under one of them, and a PDF
DocsUploads ==
    {JsonUpload([content |-> c, filename |-> f], <<>>, 0) :
        c \in {JsString(Text(MinLengthOfChunks(1)))}, f \in DocsFilenames}
    \cup {JsonUpload([content |-> JsString(Text(MinLengthOfChunks(2))),
                      filename |-> JsString(<<"f">>)], <<>>, 0)}
    \cup {MultipartUpload([file |-> PlainPdf, filename |-> JsNull], <<>>, 0)}

\* the upload request u arrives (followed while the rows of the requests
\* fit in MaxRows)
ReceiveUpload(u) ==
    /\ served < MaxRequests
    /\ Len(store) + RowsToCome(up, 1) + Len(DefaultChunks(TextOf(u))) <= MaxRows
    /\ up' = Append(up, [u EXCEPT !.storeBefore = store, !.seq = served + 1])
    /\ served' = served + 1
    /\ UNCHANGED <<seg, emb, store, now, rag, out, docs, cl>>

\* a GET or DELETE request on the documents route arrives
ReceiveDocs(op, body) ==
    /\ served < MaxRequests
    /\ docs' = Append(docs, DocsReceived(op, body, store, served + 1))
    /\ served' = served + 1
    /\ UNCHANGED <<seg, emb, store, now, up, rag, out, cl>>

\* GET, lines 13-19, 39-43: the select of request d fails
DocsSelectError(d) ==
    /\ d \in 1..Len(docs)
    /\ docs[d].pc = "received"
    /\ docs[d].op = "list"
    /\ docs' = [docs EXCEPT ![d].pc = "responded", ![d].status = 500,
                            ![d].error = "select failed"]
    /\ UNCHANGED <<seg, emb, store, now, up, rag, out, served, cl>>

\* GET, lines 13-38: the select of request d returns data; the summaries
\* are built and returned
DocsSelectResult(d, data) ==
    /\ d \in 1..Len(docs)
    /\ docs[d].pc = "received"
    /\ docs[d].op = "list"
    /\ docs' = [docs EXCEPT ![d].pc = "responded", ![d].status = 200,
                            ![d].summaries = ObjectValues(GroupRows(data, 1, <<>>)),
                            ![d].storeAtCall = store,
                            ![d].storeAfterCall = store]
    /\ UNCHANGED <<seg, emb, store, now, up, rag, out, served, cl>>

\* DELETE, lines 52-63: the body of request d is read and checked, the
\* delete is issued
DocsDeleteValidate(d) ==
    /\ d \in 1..Len(docs)
    /\ docs[d].pc = "received"
    /\ docs[d].op = "delete"
    /\ docs' = IF ~Truthy(docs[d].body.source)
               THEN [docs EXCEPT ![d].pc = "responded", ![d].status = 400,
                                 ![d].error = "Missing source to delete"]
               ELSE [docs EXCEPT ![d].pc = "deleting"]
    /\ UNCHANGED <<seg, emb, store, now, up, rag, out, served, cl>>

\* DELETE, lines 60-74: the delete of request d succeeds (ok) or the store
\* reports an error
DocsDeleteResult(d, ok) ==
    /\ d \in 1..Len(docs)
    /\ docs[d].pc = "deleting"
    /\ IF ok
       THEN /\ store' = DeleteRows(store, docs[d].body.source.str)
            /\ docs' = [docs EXCEPT ![d].pc = "responded", ![d].status = 200,
                                    ![d].success = TRUE,
                                    ![d].storeAtCall = store,
                                    ![d].storeAfterCall = store']
       ELSE /\ UNCHANGED store
            /\ docs' = [docs EXCEPT ![d].pc = "responded", ![d].status = 500,
                                    ![d].error = "delete failed",
                                    ![d].storeAtCall = store,
                                    ![d].storeAfterCall = store]
    /\ UNCHANGED <<seg, emb, now, up, rag, out, served, cl>>

NextDocs ==
    \/ \E u \in DocsUploads : ReceiveUpload(u)
    \/ ReceiveDocs("list", [source |-> JsUndefined])
    \/ \E s \in DocsSources : ReceiveDocs("delete", [source |-> s])
    \/ \E r \in 1..MaxRequests : UploadValidate(r)
    \/ \E r \in 1..MaxRequests : UploadExtract(r)
    \/ \E r \in 1..MaxRequests : UploadFanOut(r)
    \/ \E i \in 1..(MaxRequests * MaxChunks), o \in DocsOutcomes :
          UploadEmbedRespond(i, o)
    \/ \E r \in 1..MaxRequests, ok \in BOOLEAN : UploadInsertResult(r, ok)
    \/ \E d \in 1..MaxRequests : DocsSelectError(d)
    \/ \E d \in 1..MaxRequests : \E data \in SelectRows(store) :
          DocsSelectResult(d, data)
    \/ \E d \in 1..MaxRequests : DocsDeleteValidate(d)
    \/ \E d \in 1..MaxRequests, ok \in BOOLEAN : DocsDeleteResult(d, ok)

SpecDocs == InitDocs /\ [][NextDocs]_vars

(***************************************************************************)
(* TextDecoder and JSON.parse as the chat page uses them                   *)
(* (src/app/page.tsx, lines 556-583).                                      *)
(***************************************************************************)
\* U+FFFD, what the decoder puts for a malformed byte sequence
ReplacementChar == "U+FFFD"

\* TextDecoder.decode(bytes, {stream: true}) on the bytes from position p on:
\* the characters decoded and the bytes of an incomplete sequence kept for
\* the next call
RECURSIVE Utf8Decode(_, _, _)
Utf8Decode(bytes, p, text) ==
    IF p > Len(bytes) THEN [text |-> text, pending |-> <<>>]
    ELSE IF bytes[p] = "0xC3"
    THEN IF p = Len(bytes) THEN [text |-> text, pending |-> <<"0xC3">>]
         ELSE IF bytes[p + 1] = "0xA9"
         THEN Utf8Decode(bytes, p + 2, Append(text, "e_acute"))
         ELSE Utf8Decode(bytes, p + 1, Append(text, ReplacementChar))
    ELSE IF bytes[p] = "0xA9"
    THEN Utf8Decode(bytes, p + 1, Append(text, ReplacementChar))
    ELSE Utf8Decode(bytes, p + 1, Append(text, bytes[p]))

\* TextDecoder.decode(bytes, {stream: false}): an incomplete sequence at the
\* end becomes U+FFFD
Utf8DecodeLast(bytes) ==
    LET d == Utf8Decode(bytes, 1, <<>>) IN
    IF d.pending = <<>> THEN d.text ELSE Append(d.text, ReplacementChar)

\* the position of the last occurrence of pat
IndexOf_Last(s, pat) ==
    LET hits == {k \in 1..(Len(s) - Len(pat) + 1) :
                    SubSeq(s, k, k + Len(pat) - 1) = pat}
    IN  IF hits = {} THEN 0 ELSE CHOOSE k \in hits : \A h \in hits : k >= h

\* String.prototype.indexOf(pat) as a position from 1, 0 when pat is absent
IndexOf(s, pat) ==
    LET hits == {k \in 1..(Len(s) - Len(pat) + 1) :
                    SubSeq(s, k, k + Len(pat) - 1) = pat}
    IN  IF hits = {} THEN 0 ELSE CHOOSE k \in hits : \A h \in hits : k <= h

\* white space String.prototype.trim removes
\* JSON values: tagged strings, numbers (in hundredths), arrays (sequences)
\* and objects (functions from keys)
JsonStr(v) == [t |-> "string", v |-> v]
JsonNum(v) == [t |-> "number", v |-> v]
JsonArr(v) == [t |-> "array", v |-> v]
JsonObj(v) == [t |-> "object", v |-> v]

\* the result of a parse that failed (SyntaxError) and of one that read a
\* value and stopped before position p
ParseFail == [ok |-> FALSE, val |-> JsonArr(<<>>), pos |-> 0]
Parsed(val, p) == [ok |-> TRUE, val |-> val, pos |-> p]

IsDigit(c) == \E k \in 1..10 : DigitChars[k] = c
DigitValue(c) == (CHOOSE k \in 1..10 : DigitChars[k] = c) - 1

\* the characters of a JSON string from position p (after the opening
\* quote) on, with the escapes \" \\ and \n
RECURSIVE ParseStringBody(_, _, _)
ParseStringBody(s, p, acc) ==
    IF p > Len(s) THEN ParseFail
    ELSE IF s[p] = "\"" THEN Parsed(JsonStr(acc), p + 1)
    ELSE IF s[p] = "\n" THEN ParseFail
    ELSE IF s[p] = "\\"
    THEN IF p = Len(s) THEN ParseFail
         ELSE IF s[p + 1] = "\"" THEN ParseStringBody(s, p + 2, Append(acc, "\""))
         ELSE IF s[p + 1] = "\\" THEN ParseStringBody(s, p + 2, Append(acc, "\\"))
         ELSE IF s[p + 1] = "n" THEN ParseStringBody(s, p + 2, Append(acc, "\n"))
         ELSE ParseFail
    ELSE ParseStringBody(s, p + 1, Append(acc, s[p]))

\* the digits from position p on: their value and the position after them
RECURSIVE ParseDigits(_, _, _, _)
ParseDigits(s, p, value, count) ==
    IF p <= Len(s) /\ IsDigit(s[p])
    THEN ParseDigits(s, p + 1, value * 10 + DigitValue(s[p]), count + 1)
    ELSE [value |-> value, count |-> count, pos |-> p]

\* a JSON number without sign or exponent and of at most two decimals, in
\* hundredths
ParseNumber(s, p) ==
    LET whole == ParseDigits(s, p, 0, 0) IN
    IF whole.count = 0 \/ (whole.count > 1 /\ s[p] = "0") THEN ParseFail
    ELSE IF whole.pos <= Len(s) /\ s[whole.pos] = "."
    THEN LET frac == ParseDigits(s, whole.pos + 1, 0, 0) IN
         IF frac.count = 1
         THEN Parsed(JsonNum(whole.value * 100 + frac.value * 10), frac.pos)
         ELSE IF frac.count = 2
         THEN Parsed(JsonNum(whole.value * 100 + frac.value), frac.pos)
         ELSE ParseFail
    ELSE Parsed(JsonNum(whole.value * 100), whole.pos)

RECURSIVE ParseValue(_, _)
RECURSIVE ParseItems(_, _, _)
RECURSIVE ParseMembers(_, _, _)

\* the items of an array from position p on, up to the closing bracket
ParseItems(s, p, acc) ==
    LET item == ParseValue(s, p) IN
    IF ~item.ok \/ item.pos > Len(s) THEN ParseFail
    ELSE IF s[item.pos] = ","
    THEN ParseItems(s, item.pos + 1, Append(acc, item.val))
    ELSE IF s[item.pos] = "]"
    THEN Parsed(JsonArr(Append(acc, item.val)), item.pos + 1)
    ELSE ParseFail

\* the members of an object from position p on, up to the closing brace; a
\* repeated key keeps its last value
ParseMembers(s, p, obj) ==
    IF p > Len(s) \/ s[p] # "\"" THEN ParseFail
    ELSE LET key == ParseStringBody(s, p + 1, <<>>) IN
         IF ~key.ok \/ key.pos > Len(s) \/ s[key.pos] # ":" THEN ParseFail
         ELSE LET member == ParseValue(s, key.pos + 1)
                  added == (key.val.v :> member.val) @@ obj
              IN  IF ~member.ok \/ member.pos > Len(s) THEN ParseFail
                  ELSE IF s[member.pos] = ","
                  THEN ParseMembers(s, member.pos + 1, added)
                  ELSE IF s[member.pos] = "}"
                  THEN Parsed(JsonObj(added), member.pos + 1)
                  ELSE ParseFail

\* the JSON value that starts at position p
ParseValue(s, p) ==
    IF p > Len(s) THEN ParseFail
    ELSE IF s[p] = "\"" THEN ParseStringBody(s, p + 1, <<>>)
    ELSE IF s[p] = "["
    THEN IF p < Len(s) /\ s[p + 1] = "]" THEN Parsed(JsonArr(<<>>), p + 2)
         ELSE ParseItems(s, p + 1, <<>>)
    ELSE IF s[p] = "{"
    THEN IF p < Len(s) /\ s[p + 1] = "}" THEN Parsed(JsonObj(<<>>), p + 2)
         ELSE ParseMembers(s, p + 1, <<>>)
    ELSE IF IsDigit(s[p]) THEN ParseNumber(s, p)
    ELSE ParseFail

\* JSON.parse(text): the value, or ok = FALSE for a SyntaxError
JSONParse(text) ==
    LET r == ParseValue(text, 1) IN
    IF r.ok /\ r.pos = Len(text) + 1 THEN r ELSE ParseFail

(***************************************************************************)
(* The chat page sending a question and reading the answer stream          *)
(* (ChatPage.handleSend, src/app/page.tsx lines 500-593).                  *)
(***************************************************************************)
\* messages of the errors the page can catch, each standing as one symbol
StreamErrorMessage == "network error"
SyntaxErrorMessage == "Unexpected token in JSON"

\* lines 514-520, 528: the assistant turn as created, the request sent.
\* delivered: bytes of the answer stream the reader has returned; pending:
\* the bytes the decoder holds back; turn: the assistant turn is in the
\* list of messages, with content and sources its fields; error: the error
\* of the page
ChatSending ==
    [pc |-> "fetching", delivered |-> 0, pending |-> <<>>, fullText |-> <<>>,
     turn |-> TRUE, content |-> <<>>, sources |-> JsonArr(<<>>), error |-> None]

\* lines 494-498: updateMessage(assistantId, {content}) maps over the list
\* of messages and changes the assistant turn when it is in the list
UpdateContent(c, content) ==
    IF c.turn THEN [c EXCEPT !.content = content] ELSE c

\* lines 494-498: updateMessage(assistantId, {content, sources})
UpdateContentAndSources(c, content, sources) ==
    IF c.turn THEN [c EXCEPT !.content = content, !.sources = sources] ELSE c

\* lines 489-492: handleClear empties the list of messages and the error
ClearMessages(c) ==
    [c EXCEPT !.turn = FALSE, !.content = <<>>, !.sources = JsonArr(<<>>),
              !.error = None]

\* all bytes written to the answer stream, in order
OutBytes(o) == Concat(o.writes)

\* the text shown for the text received so far (lines 567-569)
VisibleText(fullText) ==
    LET markerIndex == IndexOf(fullText, SOURCE_MARKER) IN
    IF markerIndex = 0 THEN fullText ELSE SubSeq(fullText, 1, markerIndex - 1)

\* lines 560-571: one pass of the loop for a read that returned the bytes
\* value
ReadChunk(c, value) ==
    LET d == Utf8Decode(c.pending \o value, 1, <<>>)
        fullText == c.fullText \o d.text
    IN  UpdateContent([c EXCEPT !.delivered = @ + Len(value),
                                !.pending = d.pending, !.fullText = fullText],
                      VisibleText(fullText))

\* lines 584-588: the catch block
CatchError(c, message) ==
    [UpdateContent(c, <<message>>) EXCEPT !.pc = "finished", !.error = message]

\* lines 560-583: the pass of the loop for the read that reports the end of
\* the stream, and the parsing of the sources
ReadEnd(c) ==
    LET fullText == c.fullText \o Utf8DecodeLast(c.pending)
        markerIndex == IndexOf(fullText, SOURCE_MARKER)
        sourcesJson == SubSeq(fullText, markerIndex + Len(SOURCE_MARKER),
                              Len(fullText))
        parsed == JSONParse(IF sourcesJson = <<>> THEN <<"[", "]">>
                            ELSE sourcesJson)
        shown == UpdateContent([c EXCEPT !.pending = <<>>,
                                         !.fullText = fullText],
                               VisibleText(fullText))
    IN  IF markerIndex = 0 THEN [shown EXCEPT !.pc = "finished"]
        ELSE IF ~parsed.ok THEN CatchError(shown, SyntaxErrorMessage)
        ELSE [UpdateContentAndSources(
                  shown, Trim(SubSeq(fullText, 1, markerIndex - 1)), parsed.val)
              EXCEPT !.pc = "finished"]

\* a row whose content holds the marker string
MarkerRow ==
    [content |-> <<"m">> \o SOURCE_MARKER \o <<"[">>,
     embedding |-> <<10, 0, 0, 0>>,
     metadata |-> [source |-> <<"a">>, chunk_index |-> 0, total_chunks |-> 1],
     created_at |-> 1]

\* stores and requests of the chat runs
ChatStores == {PoolRows(S, 1) : S \in {{}, {1}, {1, 2}}}
              \cup {<<RowPool[2], MarkerRow>>}
ChatSources == {JsUndefined, JsString(<<"a">>)}

InitChat ==
    /\ seg = SegIdle
    /\ emb = <<>>
    /\ store \in ChatStores
    /\ now = 2
    /\ up = <<>>
    /\ \E d \in ChatSources, k \in BOOLEAN :
          rag = RagReceived([question |-> JsString(<<"w">>),
                             document_source |-> d], k)
    /\ out = OutIdle
    /\ docs = <<>>
    /\ served = 0
    /\ cl = ChatSending

\* lines 539-548: the response is not ok; its error message becomes the
\* content of the assistant turn
ClientErrorResponse ==
    /\ cl.pc = "fetching"
    /\ rag.pc = "responded"
    /\ cl' = [UpdateContent(cl, <<rag.error>>) EXCEPT !.pc = "finished",
                                                      !.error = rag.error]
    /\ UNCHANGED <<seg, emb, store, now, up, rag, out, docs, served>>

\* lines 529-554: the response is ok and the page starts reading its body
ClientStartReading ==
    /\ cl.pc = "fetching"
    /\ rag.status = 200
    /\ cl' = [cl EXCEPT !.pc = "reading"]
    /\ UNCHANGED <<seg, emb, store, now, up, rag, out, docs, served>>

\* lines 559-572: a read returns the next n bytes of the answer stream
ClientRead(n) ==
    /\ cl.pc = "reading"
    /\ n >= 1
    /\ cl.delivered + n <= Len(OutBytes(out))
    /\ cl' = ReadChunk(cl, SubSeq(OutBytes(out), cl.delivered + 1,
                                  cl.delivered + n))
    /\ UNCHANGED <<seg, emb, store, now, up, rag, out, docs, served>>

\* lines 559-583: every byte has been read and the stream is closed: the
\* read reports the end
ClientReadEnd ==
    /\ cl.pc = "reading"
    /\ out.state = "closed"
    /\ cl.delivered = Len(OutBytes(out))
    /\ cl' = ReadEnd(cl)
    /\ UNCHANGED <<seg, emb, store, now, up, rag, out, docs, served>>

\* lines 560, 584-588: the answer stream has failed and the read rejects;
\* bytes not yet read are lost
ClientReadError ==
    /\ cl.pc = "reading"
    /\ out.state = "errored"
    /\ cl' = CatchError(cl, StreamErrorMessage)
    /\ UNCHANGED <<seg, emb, store, now, up, rag, out, docs, served>>

\* lines 489-492, 650-651: the clear button, enabled while the list of
\* messages is not empty, is pressed
HandleClear ==
    /\ cl.pc \in {"fetching", "reading", "finished"}
    /\ cl.turn
    /\ cl' = ClearMessages(cl)
    /\ UNCHANGED <<seg, emb, store, now, up, rag, out, docs, served>>

NextChat ==
    \/ NextRag
    \/ HandleClear
    \/ ClientErrorResponse
    \/ ClientStartReading
    \/ \E n \in 1..MaxRead : ClientRead(n)
    \/ ClientReadEnd
    \/ ClientReadError

SpecChat == InitChat /\ [][NextChat]_vars

(***************************************************************************)
(* The server handling one request, an ingestion or a question.            *)
(***************************************************************************)
Init == InitUpload \/ InitRag

Next == NextUpload \/ NextRag

Spec == Init /\ [][Next]_vars

(***************************************************************************)
(* Properties.                                                             *)
(***************************************************************************)
AnyThrown == \E i \in 1..Len(emb) : emb[i].pc = "thrown"

\* C1: ingestion is all-or-nothing: once the embedding call of any chunk has
\* exhausted its retries, the upload handler has answered with an error
\* (status 500), the insert is never invoked and the store holds exactly the
\* rows it held before the request, whatever the other calls do.
C1_AllOrNothing ==
    \A r \in 1..Len(up) :
       (\E i \in 1..Len(emb) : emb[i].owner = r /\ emb[i].pc = "thrown")
          => /\ up[r].pc = "responded"
             /\ up[r].status = 500
             /\ up[r].error # None
             /\ up[r].insertCalls = 0
             /\ store = up[r].storeBefore

\* an ingestion of two or more chunks into a non-empty store, one call
\* thrown and another returned
C1_Witness ==
    /\ AnyThrown
    /\ Len(emb) >= 2
    /\ \E j \in 1..Len(emb) : emb[j].pc = "returned"
    /\ store # <<>>

\* the bytes of the text increments received, one write each
IncrementWrites == [k \in 1..Len(rag.increments) |-> Utf8Encode(rag.increments[k])]

\* number of places where pat occurs in s
Occurrences(s, pat) ==
    Cardinality({k \in 1..(Len(s) - Len(pat) + 1) :
                    SubSeq(s, k, k + Len(pat) - 1) = pat})

\* C2: when the generation stream ends normally the answer stream holds, in
\* this order, the text increments, then a newline and the marker, exactly
\* once, then the JSON array of the matches used as context (same matches,
\* same order, each with content, metadata and a similarity in [0,1]); the
\* stream is closed and the array is the last thing written.
C2_NormalEndProtocol ==
    rag.pc = "done" =>
        /\ out.state = "closed"
        /\ Len(out.writes) = Len(rag.increments) + 1
        /\ SubSeq(out.writes, 1, Len(rag.increments)) = IncrementWrites
        /\ out.writes[Len(out.writes)] =
              Utf8Encode(<<"\n">> \o SOURCE_MARKER) \o
              Utf8Encode(JSONStringify(rag.matches))
        /\ Occurrences(Concat(out.writes), Utf8Encode(SOURCE_MARKER)) = 1
        /\ Len(rag.matches) >= 1
        /\ \A i \in 1..Len(rag.matches) :
              /\ DOMAIN rag.matches[i] = {"content", "metadata", "similarity"}
              /\ rag.matches[i].similarity \in 0..100

\* a finished answer of two different increments and three matches
C2_Witness ==
    /\ rag.pc = "done"
    /\ Len(rag.increments) = 2
    /\ rag.increments[1] # rag.increments[2]
    /\ Len(rag.matches) = 3

\* C3: if the generation stream raises an error after any number of text
\* increments, the answer stream is in the error state, it holds the
\* increments only (neither marker nor citation payload), and the generative
\* model was called once for the request.
C3_GenerationErrorEndsStream ==
    rag.pc = "failed" =>
        /\ out.state = "errored"
        /\ out.writes = IncrementWrites
        /\ Occurrences(Concat(out.writes), Utf8Encode(SOURCE_MARKER)) = 0
        /\ rag.genCalls = 1

\* a generation that failed after two increments
C3_Witness ==
    /\ rag.pc = "failed"
    /\ Len(rag.increments) = 2

Failed(o) == o.kind # "vector"

\* the error a failed service request raises in generateEmbedding
ObservedError(o) == IF o.kind = "empty" THEN NoEmbeddingError ELSE o.error

\* C4: an embed call whose first two attempts fail and whose third succeeds
\* returns the third attempt's vector after exactly three service calls and
\* exactly two delays: 250 ms before the second attempt, 500 ms before the
\* third.
C4_FailFailSucceed ==
    \A i \in 1..Len(emb) :
        LET c == emb[i] IN
        /\ (c.pc = "awaiting" /\ Len(c.log) = 1) => c.delays = <<250>>
        /\ (c.pc = "awaiting" /\ Len(c.log) = 2) => c.delays = <<250, 500>>
        /\ (Len(c.log) = 3 /\ Failed(c.log[1]) /\ Failed(c.log[2])
               /\ ~Failed(c.log[3]))
           => /\ c.pc = "returned"
              /\ c.result = c.log[3].vector
              /\ ServiceCalls(c) = 3
              /\ c.delays = <<250, 500>>

\* a call that returned on its third attempt after two different failures
C4_Witness ==
    \E i \in 1..Len(emb) :
        /\ emb[i].pc = "returned"
        /\ Len(emb[i].log) = 3
        /\ emb[i].log[1].kind # emb[i].log[2].kind

\* C5: an embed call never makes more than 3 service attempts; when all
\* three fail it throws the error of the third, having waited exactly the
\* delays 250 and 500, and it waits no delay after the last failure.
C5_RetryBudget ==
    \A i \in 1..Len(emb) :
        LET c == emb[i] IN
        /\ ServiceCalls(c) <= 3
        /\ (Len(c.log) = 3 /\ Failed(c.log[1]) /\ Failed(c.log[2])
               /\ Failed(c.log[3]))
           => /\ c.pc = "thrown"
              /\ c.error = ObservedError(c.log[3])
              /\ c.delays = <<250, 500>>
        /\ c.pc = "thrown" => Len(c.log) = 3 /\ Len(c.delays) = 2

\* a call that threw the error of its third attempt, which differs from the
\* first attempt's
C5_Witness ==
    \E i \in 1..Len(emb) :
        /\ emb[i].pc = "thrown"
        /\ ObservedError(emb[i].log[1]) # ObservedError(emb[i].log[3])
        /\ emb[i].error = ObservedError(emb[i].log[3])

\* the store has answered the match_documents call of the request
QueryAnswered == rag.pc \in {"responded", "streaming", "done", "failed"}
                 /\ rag.rpcCalls = 1 /\ rag.status \in {200, 404}

\* C6: the match list an answering request uses (match_documents with
\* threshold 0.7 and count 3, after the optional source filter) has at most
\* 3 elements, each of similarity strictly greater than 0.7, in
\* non-increasing similarity order.
C6_MatchListBounds ==
    QueryAnswered =>
        /\ Len(rag.matches) <= 3
        /\ \A i \in 1..Len(rag.matches) : rag.matches[i].similarity > 70
        /\ \A i, j \in 1..Len(rag.matches) :
              i < j => rag.matches[i].similarity >= rag.matches[j].similarity

\* three matches out of a store with five rows above the threshold and one
\* exactly on it
C6_Witness ==
    /\ QueryAnswered
    /\ Len(rag.matches) = 3
    /\ Cardinality({i \in 1..Len(store) :
                       Similarity(store[i].embedding, rag.query) > 70}) = 5
    /\ \E i \in 1..Len(store) : Similarity(store[i].embedding, rag.query) = 70

\* C7: the source filter narrows the top-3 matches the store returned: a
\* request whose filter names a source with no row among them fails with 404,
\* opening no generation stream, even when other sources have matches and
\* the filtered source has rows above the threshold ranked below the top 3.
C7_FilterAfterTopK ==
    (/\ QueryAnswered
     /\ Truthy(rag.body.document_source)
     /\ \A i \in 1..Len(rag.data) :
           rag.data[i].metadata.source # rag.body.document_source.str)
    => /\ rag.pc = "responded"
       /\ rag.status = 404
       /\ rag.genCalls = 0

\* a 404 for a source filter whose source has a row above the threshold,
\* ranked below three matches of another source
C7_Witness ==
    /\ QueryAnswered
    /\ rag.status = 404
    /\ Truthy(rag.body.document_source)
    /\ Len(rag.data) = 3
    /\ \E i \in 1..Len(store) :
          /\ store[i].metadata.source = rag.body.document_source.str
          /\ Similarity(store[i].embedding, rag.query) > 70

\* C8: an answering request that fails at validation, at the question
\* embedding, at the store query or on an empty match set never calls the
\* generative model: a generation stream is opened only after a non-empty
\* match set was obtained.
C8_NoGenerationBeforeMatches ==
    /\ rag.pc \in {"received", "embedding", "querying", "responded"}
          => rag.genCalls = 0 /\ out.state = "none"
    /\ rag.pc \in {"streaming", "done", "failed"}
          => rag.genCalls = 1 /\ Len(rag.matches) >= 1

\* a request that found matches, all of them removed by the source filter
C8_Witness ==
    /\ rag.pc = "responded"
    /\ rag.status = 404
    /\ Len(rag.data) >= 1

\* the upload body is one the plain-text validation must reject
UploadInvalid(body) ==
    \/ body.content.type # "string"
    \/ Len(body.content.str) = 0
    \/ Len(body.content.str) > 50000
    \/ body.filename.type = "undefined"
    \/ (body.filename.type = "string" /\ Len(body.filename.str) = 0)

\* the rag body is one the validation must reject
QuestionInvalid(body) ==
    body.question.type # "string" \/ Len(body.question.str) = 0

\* C9: a request rejected by input validation makes no call to the
\* embedding service, the store or the generative model: an answering
\* request whose question is missing, empty or not a string; a plain-text
\* ingestion whose content is missing, empty, not a string or longer than
\* 50,000 characters, or whose filename is missing or empty.  Content of
\* exactly 50,000 characters is accepted.
C9_ValidationMakesNoCall ==
    /\ \A r \in 1..Len(up) :
          (up[r].contentType = "application/json" /\ up[r].pc # "received") =>
             /\ UploadInvalid(up[r].body)
                   => /\ up[r].pc = "responded"
                      /\ up[r].status = 400
                      /\ emb = <<>>
                      /\ up[r].insertCalls = 0
                      /\ store = up[r].storeBefore
             /\ (~UploadInvalid(up[r].body)
                    /\ up[r].body.filename.type = "string")
                   => up[r].status # 400
    /\ (rag.pc \notin {"idle", "received"} /\ QuestionInvalid(rag.body))
          => /\ rag.pc = "responded"
             /\ rag.status = 400
             /\ emb = <<>>
             /\ rag.rpcCalls = 0
             /\ rag.genCalls = 0
             /\ out.state = "none"

\* an ingestion of 50,001 characters, rejected
C9_Witness ==
    /\ Len(up) = 1
    /\ up[1].contentType = "application/json"
    /\ up[1].pc = "responded"
    /\ up[1].status = 400
    /\ Len(up[1].body.content.str) = 50001
    /\ Truthy(up[1].body.filename)

\* C10: chunkText throws, producing no chunk, exactly when chunkSize <= 0 or
\* overlap < 0 or overlap >= chunkSize, for every text including the empty
\* one; for every other pair of integers it returns a chunk sequence.
C10_ChunkTextErrors ==
    seg.called =>
        /\ (seg.error # None) <=>
              (seg.chunkSize <= 0 \/ seg.overlap < 0 \/ seg.overlap >= seg.chunkSize)
        /\ seg.error # None => seg.chunks = <<>>
        /\ (seg.error = None /\ Len(seg.text) > 0) => Len(seg.chunks) > 0

\* chunkText(text, c, c + 1) has thrown for a non-empty text
C10_Witness ==
    /\ seg.called
    /\ seg.error # None
    /\ seg.chunkSize > 0
    /\ seg.overlap = seg.chunkSize + 1
    /\ Len(seg.text) > 0

\* the segmenter call returned (its arguments were valid)
SegReturned == seg.called /\ seg.error = None

\* C11 (as claimed): for valid (chunkSize, overlap) a text of length L with
\* 0 < L <= chunkSize gives exactly one chunk, of index 0 and equal to the
\* whole text, and the empty text gives the empty sequence.
C11_ShortTextOneChunk ==
    SegReturned =>
        /\ Len(seg.text) = 0 => seg.chunks = <<>>
        /\ (0 < Len(seg.text) /\ Len(seg.text) <= seg.chunkSize)
              => seg.chunks = <<[text |-> seg.text, index |-> 0]>>

\* the first n characters of a string
Take(s, n) == SubSeq(s, 1, Min(n, Len(s)))

\* the characters of a string after its first n
Drop(s, n) == SubSeq(s, n + 1, Len(s))

\* the first stride characters of every chunk, in index order, followed by
\* the rest of the final chunk
Reassemble(chunks, stride) ==
    Concat([i \in 1..Len(chunks) |-> Take(chunks[i].text, stride)])
    \o (IF chunks = <<>> THEN <<>>
        ELSE Drop(chunks[Len(chunks)].text, stride))

\* C12: lossless coverage: for valid (chunkSize, overlap) and every text,
\* the first (chunkSize - overlap) characters of every chunk in index order,
\* followed by what remains of the final chunk, are the original text; with
\* overlap 0 the chunk texts concatenated are the original text.
C12_LosslessCoverage ==
    SegReturned =>
        /\ Reassemble(seg.chunks, seg.chunkSize - seg.overlap) = seg.text
        /\ seg.overlap = 0 =>
              Concat([i \in 1..Len(seg.chunks) |-> seg.chunks[i].text]) = seg.text

\* a text of several overlapping chunks
C12_Witness ==
    /\ SegReturned
    /\ seg.overlap > 0
    /\ Len(seg.chunks) >= 3
    /\ Len(seg.text) > seg.chunkSize

\* the vector the service returned to a call that returned
ReturnedVector(call) == call.log[Len(call.log)].vector

\* C20: within one ingestion the insert is issued only after the embedding
\* calls of all chunks have returned, and whatever the order in which they
\* completed, the inserted batch lists the rows in increasing chunk index
\* order, row i pairing the text of chunk i with the vector the service
\* returned for the text of chunk i; the store receives them in that order.
C20_FanInKeepsPairing ==
    \A r \in 1..Len(up) :
       LET u == up[r]
           calls == CallsOf(emb, r)
       IN  u.insertCalls > 0 =>
              /\ Len(calls) = Len(u.chunks)
              /\ Len(u.rows) = Len(u.chunks)
              /\ \A i \in 1..Len(u.chunks) :
                    /\ calls[i].pc = "returned"
                    /\ calls[i].text = u.chunks[i].text
                    /\ u.rows[i].content = u.chunks[i].text
                    /\ u.rows[i].embedding = ReturnedVector(calls[i])
                    /\ u.rows[i].metadata.chunk_index = i - 1
              /\ u.status = 200 =>
                    /\ Len(store) = Len(u.storeBefore) + Len(u.rows)
                    /\ \A i \in 1..Len(u.rows) :
                          LET row == store[Len(u.storeBefore) + i] IN
                          /\ row.content = u.rows[i].content
                          /\ row.embedding = u.rows[i].embedding
                          /\ row.metadata = u.rows[i].metadata

\* two chunks whose calls returned different vectors, the first after a
\* retry and the second at once, inserted
C20_Witness ==
    /\ Len(up) = 1
    /\ up[1].status = 200
    /\ Len(up[1].rows) = 2
    /\ up[1].rows[1].embedding # up[1].rows[2].embedding
    /\ Len(emb[1].log) > 1
    /\ Len(emb[2].log) = 1

\* C13 (as claimed): after any sequence of ingestions and deletions, also
\* with two different texts ingested under one filename, every stored row is
\* the chunk numbered chunk_index of a document of total_chunks chunks, and
\* all rows sharing a metadata.source carry the same total_chunks.
C13_MetadataInvariant ==
    /\ \A i \in 1..Len(store) :
          \/ store[i] = PriorRow
          \/ \E r \in 1..Len(up) :
                LET chunks == DefaultChunks(up[r].content)
                    k == store[i].metadata.chunk_index + 1
                IN  /\ up[r].status = 200
                    /\ store[i].metadata.source = up[r].filename
                    /\ Len(chunks) = store[i].metadata.total_chunks
                    /\ k \in 1..Len(chunks)
                    /\ chunks[k].index = store[i].metadata.chunk_index
                    /\ chunks[k].text = store[i].content
    /\ \A i, j \in 1..Len(store) :
          store[i].metadata.source = store[j].metadata.source
             => store[i].metadata.total_chunks = store[j].metadata.total_chunks

\* the run is an ingestion into the empty store that succeeded and a
\* listing that arrived afterwards and has been answered, and nothing else
ListedAfterOneIngestion ==
    /\ served = 2
    /\ Len(up) = 1 /\ Len(docs) = 1
    /\ up[1].storeBefore = <<>>
    /\ up[1].pc = "responded" /\ up[1].status = 200
    /\ docs[1].op = "list" /\ docs[1].seq = 2
    /\ docs[1].storeBefore # <<>>
    /\ docs[1].pc = "responded" /\ docs[1].status = 200

\* C14 (as claimed): from an empty store, after one successful ingestion of
\* a text under filename F, listing the sources returns exactly one summary,
\* of source F, whose chunk_count is the number of chunks chunkText produces
\* for the text and the chunks_created the ingestion reported.
C14_ListAfterIngestion ==
    ListedAfterOneIngestion =>
        /\ Len(docs[1].summaries) = 1
        /\ docs[1].summaries[1].source = up[1].filename
        /\ docs[1].summaries[1].chunk_count
              = Len(DefaultChunks(up[1].content))
        /\ docs[1].summaries[1].chunk_count = up[1].chunks_created

\* request d is a deletion with a non-empty source that the store has
\* answered
DeleteAnswered(d) ==
    /\ docs[d].pc = "responded" /\ docs[d].op = "delete"
    /\ Truthy(docs[d].body.source)

\* positions of the rows of a table whose source is not S
OtherRows(table, S) == {i \in 1..Len(table) : table[i].metadata.source # S}

\* C15: a deletion by a non-empty source S that the store carries out removes
\* every row whose metadata.source is S and leaves every other row as it
\* was, in place and order; when no row has source S it reports success and
\* the store is unchanged; a deletion the store rejects changes nothing.
\* Before and after are the table just before and just after the store
\* carried out the deletion, whatever other requests are being served.
C15_DeleteFrame ==
    \A d \in 1..Len(docs) :
       DeleteAnswered(d) =>
          LET S == docs[d].body.source.str
              before == docs[d].storeAtCall
              after == docs[d].storeAfterCall
          IN  IF docs[d].error = "delete failed"
              THEN docs[d].status = 500 /\ after = before
              ELSE /\ docs[d].status = 200 /\ docs[d].success
                   /\ \A i \in 1..Len(after) : after[i].metadata.source # S
                   /\ Len(after) = Cardinality(OtherRows(before, S))
                   /\ \A i \in OtherRows(before, S) :
                         after[Cardinality({j \in OtherRows(before, S) : j <= i})]
                            = before[i]
                   /\ OtherRows(before, S) = 1..Len(before) => after = before

\* a deletion that removed the rows of one source and left those of another
C15_Witness ==
    \E d \in 1..Len(docs) :
       /\ DeleteAnswered(d)
       /\ docs[d].success
       /\ Len(docs[d].storeAfterCall) > 0
       /\ Len(docs[d].storeAfterCall) < Len(docs[d].storeAtCall)

\* created_at values of the rows of a source
CreatedAtOf(table, source) ==
    {table[i].created_at : i \in {j \in 1..Len(table) :
                                     table[j].metadata.source = source}}

\* C16 (as claimed): whatever the store holds and in whatever order it
\* returns its rows, the listing has one summary for every distinct
\* metadata.source, whose chunk_count is the number of rows of that source
\* and whose created_at is the earliest created_at among those rows.
C16_ListSources ==
    \A d \in 1..Len(docs) :
       (docs[d].pc = "responded" /\ docs[d].op = "list" /\ docs[d].status = 200) =>
          LET table == docs[d].storeAtCall
              summaries == docs[d].summaries
          IN  /\ {summaries[k].source : k \in 1..Len(summaries)}
                    = {table[i].metadata.source : i \in 1..Len(table)}
              /\ \A k, l \in 1..Len(summaries) :
                    summaries[k].source = summaries[l].source => k = l
              /\ \A k \in 1..Len(summaries) :
                    LET sm == summaries[k] IN
                    /\ sm.chunk_count =
                          Cardinality({i \in 1..Len(table) :
                                          table[i].metadata.source = sm.source})
                    /\ \A t \in CreatedAtOf(table, sm.source) : sm.created_at <= t

\* the streamer has read the generation stream to its end
GenerationDrained ==
    \E k \in 1..Len(rag.phases) : rag.phases[k] = "EmittingCitations"

\* C17 (as claimed): once the consumer has cancelled the answer stream
\* during generation, the streamer does not go on reading generation events
\* until the generation stream ends, and nothing, so neither the marker nor
\* any part of the sources payload, is written to the answer stream after
\* the cancellation.
C17_CancelStopsGeneration ==
    (rag.pc # "idle" /\ out.cancelled) =>
        /\ Len(out.writes) = out.atCancel.writes
        /\ ~(GenerationDrained /\ rag.events > out.atCancel.events)

\* the phases of an answering request, in order
PhaseOrder ==
    <<"Validating", "EmbeddingQuestion", "QueryingStore", "BuildingPrompt",
      "Streaming", "EmittingCitations", "Done">>

\* phases from which the claim lets a request fail
FailingPhases ==
    {"Validating", "EmbeddingQuestion", "QueryingStore", "Streaming"}

\* C18 (as claimed): the phases a request has gone through are an initial
\* part of Validating, EmbeddingQuestion, QueryingStore, BuildingPrompt,
\* Streaming, EmittingCitations, Done, possibly followed by Failed; Failed
\* follows only Validating, EmbeddingQuestion, QueryingStore or Streaming;
\* a request that has ended is in Done or Failed.
C18_PhaseOrder ==
    rag.pc # "idle" =>
        LET n == Len(rag.phases)
            failed == rag.phases[n] = "Failed"
            m == IF failed THEN n - 1 ELSE n
        IN  /\ m \in 1..Len(PhaseOrder)
            /\ \A k \in 1..m : rag.phases[k] = PhaseOrder[k]
            /\ failed => rag.phases[m] \in FailingPhases
            /\ rag.pc \in {"responded", "done", "failed"}
                  <=> rag.phases[n] \in {"Done", "Failed"}

\* C19 (as claimed): when the generation fails after some answer text has
\* reached the chat page, the assistant turn (while it is in the list of
\* messages) still shows that partial text once the page has handled the
\* failure, and its sources stay empty.
C19_PartialTextStaysVisible ==
    (rag.pc = "failed" /\ cl.pc = "finished" /\ cl.turn /\ cl.fullText # <<>>) =>
        /\ cl.content = cl.fullText
        /\ cl.sources = JsonArr(<<>>)

\* C21 (as claimed): for valid (chunkSize, overlap) chunk i of the result
\* starts at character offset i * (chunkSize - overlap) and carries index i,
\* and every chunk except the final one has exactly chunkSize characters.
C21_ChunkOffsets ==
    SegReturned =>
        \A k \in 1..Len(seg.chunks) :
            LET offset == (k - 1) * (seg.chunkSize - seg.overlap) IN
            /\ seg.chunks[k].index = k - 1
            /\ seg.chunks[k].text =
                  SubSeq(seg.text, offset + 1,
                         offset + Len(seg.chunks[k].text))
            /\ k < Len(seg.chunks) => Len(seg.chunks[k].text) = seg.chunkSize

\* ceil(a / b) for a >= 0 and b > 0
CeilDiv(a, b) == (a + b - 1) \div b

\* C24: for valid (chunkSize, overlap) and a text of length L, chunkText
\* returns exactly ceil(L / (chunkSize - overlap)) chunks, with the indices
\* 0, 1, ..., n-1 in order, each chunk non-empty and of at most chunkSize
\* characters.
C24_ChunkCount ==
    SegReturned =>
        /\ Len(seg.chunks) =
              CeilDiv(Len(seg.text), seg.chunkSize - seg.overlap)
        /\ \A k \in 1..Len(seg.chunks) :
              /\ seg.chunks[k].index = k - 1
              /\ Len(seg.chunks[k].text) >= 1
              /\ Len(seg.chunks[k].text) <= seg.chunkSize

\* a text cut with an overlap into more chunks than its length divided by
\* chunkSize, the final one shorter than chunkSize
C24_Witness ==
    /\ SegReturned
    /\ seg.overlap > 0
    /\ Len(seg.chunks) > CeilDiv(Len(seg.text), seg.chunkSize)
    /\ Len(seg.chunks[Len(seg.chunks)].text) < seg.chunkSize

\* the outcomes of a service request that fails
EmptyOutcome == [kind |-> "empty", vector |-> <<>>, error |-> None]
RejectedOutcome == [kind |-> "rejected", vector |-> <<>>, error |-> ConnectionError]

\* the backoff delay waited after the k-th failed attempt
RECURSIVE BackoffDelay(_)
BackoffDelay(k) == IF k = 1 THEN InitialDelayMs ELSE 2 * BackoffDelay(k - 1)

\* C22: a service response without error and without a vector is handled by
\* an embed call like a rejected request: it consumes one of the 3 attempts,
\* is followed by the same backoff delay before the next attempt, makes the
\* call throw when it is the third attempt, and is never returned to the
\* caller as a result.
C22_EmptyResponseIsFailure ==
    \A i \in 1..Len(emb) :
        LET c == emb[i] IN
        /\ c.attempt = Cardinality({k \in 1..Len(c.log) : Failed(c.log[k])})
        /\ \A k \in 1..Len(c.log) :
              c.log[k].kind = "empty" =>
                 /\ k <= MAX_RETRIES
                 /\ (k < MAX_RETRIES /\ Len(c.log) > k)
                       => (Len(c.delays) >= k /\ c.delays[k] = BackoffDelay(k))
                 /\ k = MAX_RETRIES
                       => (c.pc = "thrown" /\ c.error = NoEmbeddingError)
                 /\ k = Len(c.log) => c.pc \in {"sleeping", "awaiting", "thrown"}
        /\ c.pc = "returned"
              => (c.log[Len(c.log)].kind = "vector" /\ c.result \in ServiceVectors)
        /\ c.pc = "awaiting" =>
              LET e == EmbedOnResponse(c, EmptyOutcome)
                  r == EmbedOnResponse(c, RejectedOutcome)
              IN  /\ e.pc = r.pc /\ e.attempt = r.attempt
                  /\ e.delayMs = r.delayMs /\ e.delays = r.delays
                  /\ e.result = r.result /\ e.pc # "returned"

\* a call that got a response without a vector, waited, got a rejection,
\* waited, and threw on a third response without a vector
C22_Witness ==
    \E i \in 1..Len(emb) :
        /\ emb[i].pc = "thrown"
        /\ emb[i].log[1].kind = "empty"
        /\ emb[i].log[2].kind = "rejected"
        /\ emb[i].log[3].kind = "empty"
        /\ emb[i].delays = <<250, 500>>

\* C23: during streaming every text increment received from the generation
\* stream has been written to the answer stream before the next generation
\* event is read, an event that is not a text increment writes nothing, and
\* the answer text written before the marker is the concatenation of the
\* increments in their order of arrival, none dropped, repeated or moved.
C23_IncrementsForwarded ==
    rag.pc \in {"streaming", "done", "failed"} =>
        LET n == Len(rag.increments)
            answer == SubSeq(out.writes, 1, n)
        IN  /\ rag.events >= n
            /\ Len(out.writes) = n + (IF rag.pc = "done" THEN 1 ELSE 0)
            /\ \A k \in 1..n : out.writes[k] = Utf8Encode(rag.increments[k])
            /\ Utf8DecodeLast(Concat(answer)) = Concat(rag.increments)
            /\ rag.pc = "done" =>
                  IndexOf(Concat(out.writes), Utf8Encode(SOURCE_MARKER))
                     = Len(Concat(answer)) + 2

\* the stream is still open after a text increment of a two-byte character
\* and an event that is not a text increment
C23_Witness ==
    /\ rag.pc = "streaming"
    /\ rag.events = 2
    /\ rag.increments = << <<"e_acute">> >>
    /\ out.writes = << <<"0xC3", "0xA9">> >>

\* C27 (as claimed): the streamer finishes the answer stream exactly once:
\* it calls close only on a stream that is still open, so at most once and
\* never on a stream it has put into the error state after a generation
\* error; a request that ended normally has called it once.
C27_CloseOnce ==
    rag.pc \in {"streaming", "done", "failed"} =>
        /\ out.closeCalls <= 1
        /\ out.state = "errored" => out.closeCalls = 0
        /\ rag.pc = "done" => (out.closeCalls = 1 /\ out.state = "closed")

\* the number a JSON number in hundredths stands for, when it is whole
WholeNumber(v) == v.v \div 100

\* the source record a parsed JSON object stands for
SourceOfJson(v) ==
    [content |-> v.v[KeyContent].v,
     metadata |-> [source |-> v.v[KeyMetadata].v[KeySource].v,
                   chunk_index |-> WholeNumber(v.v[KeyMetadata].v[KeyChunkIndex]),
                   total_chunks |-> WholeNumber(v.v[KeyMetadata].v[KeyTotalChunks])],
     similarity |-> v.v[KeySimilarity].v]

\* C25: client round trip: for an answer stream that completed, whose
\* generated text does not hold the marker, and for every split of the bytes
\* into reads, the chat page ends with the content of the assistant turn
\* equal to the trimmed concatenation of the server's text increments and
\* with its sources equal to the server's match list, in the same order,
\* also when the content of a match holds the marker string.  The assistant
\* turn is the one in the list of messages: a conversation the user has
\* cleared meanwhile has no assistant turn.
C25_ClientRoundTrip ==
    (rag.pc = "done" /\ cl.pc = "finished" /\ cl.turn) =>
        /\ cl.error = None
        /\ cl.content = Trim(Concat(rag.increments))
        /\ cl.sources.t = "array"
        /\ Len(cl.sources.v) = Len(rag.matches)
        /\ \A i \in 1..Len(rag.matches) :
              /\ DOMAIN cl.sources.v[i].v = {KeyContent, KeyMetadata, KeySimilarity}
              /\ SourceOfJson(cl.sources.v[i]) = rag.matches[i]

\* an answer of a space and a two-byte character read to its end, with two
\* matches of which one holds the marker and the other a quote
C25_Witness ==
    /\ rag.pc = "done"
    /\ cl.pc = "finished"
    /\ cl.turn
    /\ rag.increments = << <<" ">>, <<"e_acute">> >>
    /\ cl.content = <<"e_acute">>
    /\ Len(rag.matches) = 2
    /\ \E i \in 1..2 : IndexOf(rag.matches[i].content, SOURCE_MARKER) > 0

\* the non-empty proper leading parts of the marker
MarkerFragments ==
    {SubSeq(SOURCE_MARKER, 1, k) : k \in 1..(Len(SOURCE_MARKER) - 1)}

\* C26 (as claimed): at every moment of the reading of an answer, for every
\* split of the bytes into reads, the displayed content of the assistant turn
\* holds generated answer text only: not the marker, not a leading fragment
\* of the marker, no part of the citation payload.
C26_OnlyAnswerText ==
    (cl.pc = "reading" /\ cl.turn) =>
        /\ IndexOf(cl.content, SOURCE_MARKER) = 0
        /\ \A f \in MarkerFragments : ~EndsWith(cl.content, f)
        /\ \A i \in 1..Len(cl.content) :
              \/ cl.content[i] = "\n"
              \/ \E k \in 1..Len(rag.increments) :
                    \E j \in 1..Len(rag.increments[k]) :
                       rag.increments[k][j] = cl.content[i]

====
